---------------------------- MODULE Spec2Model ----------------------------
(***************************************************************************)
(* Model of the review workflow, of the selective-review routing, of the   *)
(* K-Eval confidence pipeline, of the K-OCR pipeline (multi-track OCR,     *)
(* confidence scorer) and of the document worker of the yantraai backend.  *)
(*                                                                         *)
(* Confidences and trust scores are Python floats in [0,1]; they are       *)
(* modelled as integers in thousandths (0.6 is 600, 1.0 is 1000); the      *)
(* aggregated and calibrated confidences of K-Eval are in units of 1e-8.   *)
(* Python's None is the value None; "" is the empty string.                *)
(*                                                                         *)
(* Specifications:                                                         *)
(*   Spec         the database review workflow (ReviewCRUD, JobCRUD), one  *)
(*                request at a time                                        *)
(*   SpecRace     two reviewers' review_region requests interleaved at the *)
(*                database round trips (query, commit)                     *)
(*   SpecFile     the file-based review endpoints (result.json,            *)
(*                audit.jsonl)                                             *)
(*   SpecClassify SelectiveClassifier.classify applied to every input      *)
(*   SpecKEval    KEvalPipeline.score_and_route applied to every triple of *)
(*                component confidences, on either configuration           *)
(*   SpecCalibrate KEvalPipeline.calibrate on small sample sets, followed  *)
(*                by score_and_route                                       *)
(*   SpecOcr      MultiTrackOCR.process_region over the engines' outcomes  *)
(*   SpecWorker   enqueue_job and the RQ worker's process_document_job;    *)
(*                SpecWorkerFair adds that every enqueued job is performed *)
(*   SpecRegions  the region loop of process_document_job: extraction,     *)
(*                trust score and Region row of each region                *)
(*   SpecScorer   ConfidenceScorer.calculate_trust_score applied to every  *)
(*                input                                                    *)
(*   SpecPipeline MultiTrackOCRPipeline.process_region on the default      *)
(*                configuration                                            *)
(***************************************************************************)
EXTENDS Integers, Sequences, FiniteSets, TLC

VARIABLES
    jobs,         \* table jobs: job id -> [status]
    regions,      \* table regions: region id -> row
    audit_logs,   \* table audit_logs, in insertion order
    audit_seq,    \* number of audit_logs rows ever inserted (row identity)
    lastOp,       \* the last request served and what it returned
    queue,        \* the region ids the last get_review_queue request fetched
    sess,         \* per reviewer: the state of their review_region request
    result_json,  \* data/jobs/<job>/result.json: field id -> field
    audit_jsonl,  \* data/jobs/<job>/audit.jsonl, one entry per line
    cls,          \* the last classify call: its arguments and its result
    keval,        \* the KEvalPipeline object and its last calls
    ocr,          \* the MultiTrackOCR object and its last process_region call
    worker        \* per job: its RQ job and process_document_job runs

dbVars   == <<jobs, regions, audit_logs, audit_seq>>
raceVars == <<sess>>
fileVars == <<result_json, audit_jsonl>>
evalVars == <<cls, keval>>
ocrVars  == <<ocr>>
workerVars == <<worker>>
vars == <<jobs, regions, audit_logs, audit_seq, lastOp, queue, sess,
          result_json, audit_jsonl, cls, keval, ocr, worker>>

None == "None"

Range(f) == {f[x] : x \in DOMAIN f}

Max(a, b) == IF a >= b THEN a ELSE b

Min(a, b) == IF a <= b THEN a ELSE b

---------------------------------------------------------------------------
(* Database review workflow: app/crud/review.py, app/crud/job.py           *)

\* settings.TRUST_SCORE_THRESHOLD = 0.6
TRUST_SCORE_THRESHOLD == 600

\* region.trust_score = 1.0 after a human correction
CorrectedTrust == 1000

\* region.trust_score = max(region.trust_score, 0.9) after an approval
ApprovedTrust == 900

JobIds == {"j1", "j2"}

RegionIds == {"r1", "r2"}

\* the reviewers (current_user.id of a request)
UserIds == {"u1", "u2"}

\* the job each region was created for, and its created_at (the worker
\* commits each page's regions in a transaction of its own, so the
\* timestamps of regions of different pages or jobs differ)
RegionJob(r) == IF r = "r1" THEN "j1" ELSE "j2"

RegionCreatedAt(r) == IF r = "r1" THEN 1 ELSE 2

JobStatus == {"queued", "processing", "done", "failed"}

\* the statuses a finished job is updated to
FinalStatus == {"done", "failed"}

\* trust scores the worker may have stored: below, at and above the
\* review threshold, and above the approval floor
InitTrust(r) == IF r = "r1" THEN {200, 600, 950} ELSE {500, 950}

Texts == {"a", "b"}

\* verified_value of a RegionReview body: Optional[str]
VerifiedValues == {None, ""} \cup Texts

\* action of a RegionReview body: any string
Actions == {"approve", "correct", "skip", "redact"}

\* lastOp.ret is the kind of value the request returned ("None", "AuditLog",
\* "list", "True", "False", or the exception raised); lastOp.audit_id is the
\* id of the returned AuditLog row (0 when there is none); skip and limit
\* are the arguments of a get_review_queue request (0 otherwise)
Op(op, region_id, action, verified_value, ret, audit_id) ==
    [op |-> op, region_id |-> region_id, action |-> action,
     verified_value |-> verified_value, ret |-> ret, audit_id |-> audit_id,
     skip |-> 0, limit |-> 0]

NoOp == Op("none", None, None, None, None, 0)

\* Region row as the worker stores it (human_verified defaults to False)
NewRegion(r, trust) ==
    [job_id |-> RegionJob(r), normalized_text |-> "a", trust_score |-> trust,
     human_verified |-> FALSE, verified_value |-> None,
     created_at |-> RegionCreatedAt(r)]

\* before_state / after_state of review_region
Snapshot(region) ==
    [normalized_text |-> region.normalized_text,
     trust_score |-> region.trust_score,
     human_verified |-> region.human_verified,
     verified_value |-> region.verified_value]

\* Python truthiness of an Optional[str]
Truthy(v) == v # None /\ v # ""

\* the early return taken only when the region has no row
NotReviewable_AbsentOnly(rows, region_id) == region_id \notin DOMAIN rows

\* "if not region or region.human_verified: return None"
NotReviewable(rows, region_id) ==
    region_id \notin DOMAIN rows \/ rows[region_id].human_verified

\* a correction that stores verified_value and the trust score but leaves
\* normalized_text as it was
ApplyAction_KeepText(region, action, verified_value) ==
    LET updated ==
            IF action = "correct" /\ Truthy(verified_value)
            THEN [region EXCEPT !.verified_value = verified_value,
                                !.trust_score = CorrectedTrust]
            ELSE IF action = "approve"
            THEN [region EXCEPT !.trust_score = Max(region.trust_score, ApprovedTrust)]
            ELSE region
    IN  [updated EXCEPT !.human_verified = TRUE]

\* "Update region based on action" and region.human_verified = True
ApplyAction(region, action, verified_value) ==
    LET updated ==
            IF action = "correct" /\ Truthy(verified_value)
            THEN [region EXCEPT !.normalized_text = verified_value,
                                !.verified_value = verified_value,
                                !.trust_score = CorrectedTrust]
            ELSE IF action = "approve"
            THEN [region EXCEPT !.trust_score = Max(region.trust_score, ApprovedTrust)]
            ELSE region
    IN  [updated EXCEPT !.human_verified = TRUE]

AuditLog_BeforeTwice(id, job_id, region_id, user_id, action, before, after) ==
    [id |-> id, job_id |-> job_id, region_id |-> region_id, user_id |-> user_id,
     action |-> action, before |-> before, after |-> before]

\* AuditLog(job_id=..., region_id=..., user_id=..., action=..., before=..., after=...)
AuditLog(id, job_id, region_id, user_id, action, before, after) ==
    [id |-> id, job_id |-> job_id, region_id |-> region_id, user_id |-> user_id,
     action |-> action, before |-> before, after |-> after]

\* ReviewCRUD.review_region, the whole request in one transaction
ReviewRegion(region_id, user_id, verified_value, action) ==
    /\ IF NotReviewable(regions, region_id)
       THEN /\ UNCHANGED <<regions, audit_logs, audit_seq>>
            /\ lastOp' = Op("review_region", region_id, action, verified_value,
                          None, 0)
       ELSE LET region == regions[region_id]
                before_state == Snapshot(region)
                updated == ApplyAction(region, action, verified_value)
                after_state == Snapshot(updated)
                audit_log == AuditLog(audit_seq + 1, region.job_id, region_id,
                                      user_id, action, before_state, after_state)
            IN  /\ regions' = [regions EXCEPT ![region_id] = updated]
                /\ audit_logs' = Append(audit_logs, audit_log)
                /\ audit_seq' = audit_seq + 1
                /\ lastOp' = Op("review_region", region_id, action, verified_value,
                              "AuditLog", audit_log.id)
    /\ queue' = <<>>
    /\ UNCHANGED <<jobs, sess, result_json, audit_jsonl, cls, keval, ocr, worker>>

QueueFilter_TrustOnly(rows) ==
    {r \in DOMAIN rows : rows[r].trust_score < TRUST_SCORE_THRESHOLD}

\* the WHERE clause of get_review_queue
QueueFilter(rows) ==
    {r \in DOMAIN rows : /\ rows[r].trust_score < TRUST_SCORE_THRESHOLD
                         /\ rows[r].human_verified = FALSE}

\* .order_by(desc(Region.created_at)); created_at values are distinct
RECURSIVE OrderByQueue(_, _)
OrderByQueue(rows, S) ==
    IF S = {} THEN <<>>
    ELSE LET r == CHOOSE x \in S :
                      \A y \in S : rows[x].created_at >= rows[y].created_at
         IN  <<r>> \o OrderByQueue(rows, S \ {r})

\* .offset(skip).limit(limit)
Paginate(s, skip, limit) == SubSeq(s, skip + 1, Min(Len(s), skip + limit))

\* the query of get_review_queue: the ids of the rows it fetches, in order
ReviewQueueQuery(rows, skip, limit) ==
    Paginate(OrderByQueue(rows, QueueFilter(rows)), skip, limit)

MaxSkip == 1

MaxLimit == 2

\* ReviewCRUD.get_review_queue. For each fetched row the loop calls
\* db.query(region.job) and db.query(region.page) with a mapped instance,
\* which Session.query rejects with ArgumentError: the request returns
\* a list only when the query fetched no row.
GetReviewQueue(skip, limit) ==
    LET fetched == ReviewQueueQuery(regions, skip, limit)
    IN  /\ queue' = fetched
        /\ lastOp' = [Op("get_review_queue", None, None, None,
                         IF fetched = <<>> THEN "list" ELSE "ArgumentError", 0)
                      EXCEPT !.skip = skip, !.limit = limit]
        /\ UNCHANGED <<jobs, regions, audit_logs, audit_seq, sess,
                       result_json, audit_jsonl, cls, keval, ocr, worker>>

\* JobCRUD.update with a JobUpdate carrying a status
UpdateJob(job_id, status) ==
    /\ job_id \in DOMAIN jobs
    /\ jobs' = [jobs EXCEPT ![job_id] = [status |-> status]]
    /\ lastOp' = Op("update_job", None, None, None, "Job", 0)
    /\ queue' = <<>>
    /\ UNCHANGED <<regions, audit_logs, audit_seq, sess, result_json,
                   audit_jsonl, cls, keval, ocr, worker>>

\* JobCRUD.delete: db.delete(job) cascades over Job.regions and
\* Job.audit_logs (cascade="all, delete-orphan")
DeleteJob(job_id) ==
    /\ IF job_id \in DOMAIN jobs
       THEN /\ jobs' = [j \in DOMAIN jobs \ {job_id} |-> jobs[j]]
            /\ regions' = [r \in {x \in DOMAIN regions : regions[x].job_id # job_id}
                              |-> regions[r]]
            /\ audit_logs' = SelectSeq(audit_logs, LAMBDA e : e.job_id # job_id)
            /\ lastOp' = Op("delete_job", None, None, None, "True", 0)
       ELSE /\ UNCHANGED <<jobs, regions, audit_logs>>
            /\ lastOp' = Op("delete_job", None, None, None, "False", 0)
    /\ queue' = <<>>
    /\ UNCHANGED <<audit_seq, sess, result_json, audit_jsonl, cls, keval, ocr, worker>>

\* a review_region request not yet begun (SpecRace)
NoRow == [job_id |-> None, normalized_text |-> None, trust_score |-> 0,
          human_verified |-> FALSE, verified_value |-> None, created_at |-> 0]

IdleSess == [u \in UserIds |->
                [pc |-> "idle", region_id |-> None, action |-> None,
                 verified_value |-> None, loaded |-> NoRow, ret |-> None,
                 audit_id |-> 0]]

\* no classify call made yet
NoCall == [confidence |-> 0, domain |-> None, is_anomalous |-> FALSE,
           is_ood |-> FALSE, called |-> FALSE,
           result |-> [review_action |-> None]]

\* no KEvalPipeline constructed
NoEval == [scored |-> FALSE, calibrations |-> 0]

\* no MultiTrackOCR call made
NoOcr == [called |-> FALSE]

\* no job handed to the RQ worker
NoWorker == [j \in JobIds |-> [pc |-> "new"]]

InitDb ==
    /\ jobs = [j \in JobIds |-> [status |-> "done"]]
    /\ regions \in {[r \in RegionIds |-> NewRegion(r, t[r])] :
                        t \in {f \in [RegionIds -> 0..1000] :
                                 \A r \in RegionIds : f[r] \in InitTrust(r)}}
    /\ audit_logs = <<>>
    /\ audit_seq = 0

\* one database, for the specifications that are not about it
InitDbFixed ==
    /\ jobs = [j \in JobIds |-> [status |-> "done"]]
    /\ regions = [r \in RegionIds |-> NewRegion(r, 500)]
    /\ audit_logs = <<>>
    /\ audit_seq = 0

Init ==
    /\ InitDb
    /\ lastOp = NoOp
    /\ queue = <<>>
    /\ sess = IdleSess
    /\ result_json = <<>>
    /\ audit_jsonl = <<>>
    /\ cls = NoCall
    /\ keval = NoEval
    /\ ocr = NoOcr
    /\ worker = NoWorker

Next ==
    \/ \E r \in RegionIds, v \in VerifiedValues, a \in Actions :
          ReviewRegion(r, "u1", v, a)
    \/ \E skip \in 0..MaxSkip, limit \in 1..MaxLimit : GetReviewQueue(skip, limit)
    \/ \E j \in JobIds, st \in FinalStatus : UpdateJob(j, st)
    \/ \E j \in JobIds : DeleteJob(j)

Spec == Init /\ [][Next]_vars

---------------------------------------------------------------------------
(* Two reviewers racing: review_region split at its database round trips.  *)
(* Each request runs in a Session of its own; the query at the top reads   *)
(* the committed row, the changes are made on the loaded object, and       *)
(* db.commit() flushes them (READ COMMITTED, no row lock, no version       *)
(* column).                                                                *)

\* region = db.query(Region).filter(Region.id == region_id).first() and the
\* early return
RaceFetch(u, region_id, verified_value, action) ==
    /\ sess[u].pc = "idle"
    /\ IF NotReviewable(regions, region_id)
       THEN sess' = [sess EXCEPT ![u] =
                        [pc |-> "done", region_id |-> region_id, action |-> action,
                         verified_value |-> verified_value, loaded |-> NoRow,
                         ret |-> None, audit_id |-> 0]]
       ELSE sess' = [sess EXCEPT ![u] =
                        [pc |-> "loaded", region_id |-> region_id, action |-> action,
                         verified_value |-> verified_value,
                         loaded |-> regions[region_id],
                         ret |-> None, audit_id |-> 0]]
    /\ UNCHANGED <<jobs, regions, audit_logs, audit_seq, lastOp, queue,
                   result_json, audit_jsonl, cls, keval, ocr, worker>>

\* the UPDATE the unit of work emits for db.add(region): only the columns
\* whose value differs from the loaded one are written to the current row
Flush(current, loaded, updated) ==
    [current EXCEPT
        !.normalized_text = IF updated.normalized_text # loaded.normalized_text
                            THEN updated.normalized_text ELSE @,
        !.trust_score = IF updated.trust_score # loaded.trust_score
                        THEN updated.trust_score ELSE @,
        !.human_verified = IF updated.human_verified # loaded.human_verified
                           THEN updated.human_verified ELSE @,
        !.verified_value = IF updated.verified_value # loaded.verified_value
                           THEN updated.verified_value ELSE @]

\* the rest of review_region: snapshots, update of the loaded object,
\* AuditLog, db.commit()
RaceCommit(u) ==
    /\ sess[u].pc = "loaded"
    /\ LET region_id == sess[u].region_id
           region == sess[u].loaded
           before_state == Snapshot(region)
           updated == ApplyAction(region, sess[u].action, sess[u].verified_value)
           after_state == Snapshot(updated)
           audit_log == AuditLog(audit_seq + 1, region.job_id, region_id, u,
                                 sess[u].action, before_state, after_state)
       IN  /\ regions' = [regions EXCEPT
                             ![region_id] = Flush(@, region, updated)]
           /\ audit_logs' = Append(audit_logs, audit_log)
           /\ audit_seq' = audit_seq + 1
           /\ sess' = [sess EXCEPT ![u].pc = "done", ![u].ret = "AuditLog",
                                   ![u].audit_id = audit_log.id]
    /\ UNCHANGED <<jobs, lastOp, queue, result_json, audit_jsonl, cls, keval, ocr, worker>>

InitRace == Init

NextRace ==
    \/ \E u \in UserIds, r \in RegionIds, v \in VerifiedValues, a \in Actions :
          RaceFetch(u, r, v, a)
    \/ \E u \in UserIds : RaceCommit(u)

SpecRace == InitRace /\ [][NextRace]_vars

---------------------------------------------------------------------------
(* File-based review endpoints: app/api/review.py                          *)

\* the job directories under data/jobs, and a job id without a directory
FileJobs == {"fj1"}

AbsentJob == "fj0"

\* the region ids of the fields of fj1's result.json, in file order, and a
\* region id no field has
FieldIds == <<"f1", "f2">>

AbsentField == "f0"

FieldInitTrust(f) == IF f = "f1" THEN {200, 600} ELSE {500, 950}

\* ReviewCorrection.verified_value: str
CorrectionValues == {""} \cup Texts

\* the literal 0.6 of the file-based get_review_queue
FileQueueThreshold == 600

\* field["trust_score"] = 1.0 in submit_correction
FileCorrectedTrust == 1000

\* lines of audit.jsonl the model lets a job accumulate
MaxFileAudit == 2

\* a field of result.json as the pipeline writes it
NewField(f, trust) ==
    [region_id |-> f, raw_text |-> "a", normalized_text |-> "a",
     trust_score |-> trust, human_verified |-> FALSE, verified_value |-> None]

\* index of the first field with this region_id, 0 when there is none
\* (the for ... break ... else of submit_correction)
FindField(fields, region_id) ==
    IF \E i \in 1..Len(fields) : fields[i].region_id = region_id
    THEN CHOOSE i \in 1..Len(fields) :
            /\ fields[i].region_id = region_id
            /\ \A k \in 1..(i - 1) : fields[k].region_id # region_id
    ELSE 0

\* submit_correction(job_id, region_id, correction)
SubmitCorrection(job_id, region_id, user, verified_value) ==
    /\ Len(audit_jsonl) < MaxFileAudit
    /\ LET i == FindField(result_json, region_id)
       IN  IF job_id \notin FileJobs \/ i = 0
           THEN /\ UNCHANGED <<result_json, audit_jsonl>>
                /\ lastOp' = Op("submit_correction", region_id, "correct",
                                verified_value, "HTTP404", 0)
           ELSE /\ result_json' =
                      [result_json EXCEPT ![i].human_verified = TRUE,
                                          ![i].verified_value = verified_value,
                                          ![i].trust_score = FileCorrectedTrust]
                /\ audit_jsonl' = Append(audit_jsonl,
                      [user |-> user, region_id |-> region_id,
                       action |-> "correct", before |-> result_json[i].raw_text,
                       after |-> verified_value])
                /\ lastOp' = Op("submit_correction", region_id, "correct",
                                verified_value, "success", 0)
    /\ queue' = <<>>
    /\ UNCHANGED <<jobs, regions, audit_logs, audit_seq, sess, cls, keval, ocr, worker>>

\* queue.sort(key=lambda x: x.trust_score): a stable ascending sort
RECURSIVE InsertByTrust(_, _)
InsertByTrust(sorted, x) ==
    IF sorted = <<>> THEN <<x>>
    ELSE IF Head(sorted).trust_score <= x.trust_score
    THEN <<Head(sorted)>> \o InsertByTrust(Tail(sorted), x)
    ELSE <<x>> \o sorted

RECURSIVE SortByTrust(_)
SortByTrust(items) ==
    IF items = <<>> THEN <<>>
    ELSE InsertByTrust(SortByTrust(SubSeq(items, 1, Len(items) - 1)),
                       items[Len(items)])

\* the file-based get_review_queue(limit), before the slice
FileQueueItems(fields) ==
    SortByTrust(SelectSeq(fields,
        LAMBDA field : /\ field.trust_score < FileQueueThreshold
                       /\ ~field.human_verified))

\* the file-based get_review_queue(limit)
FileGetReviewQueue(limit) ==
    LET items == FileQueueItems(result_json)
        page == SubSeq(items, 1, Min(Len(items), limit))
    IN  /\ queue' = [i \in 1..Len(page) |-> page[i].region_id]
        /\ lastOp' = [Op("file_get_review_queue", None, None, None, "list", 0)
                      EXCEPT !.limit = limit]
        /\ UNCHANGED <<jobs, regions, audit_logs, audit_seq, sess,
                       result_json, audit_jsonl, cls, keval, ocr, worker>>

InitFile ==
    /\ InitDbFixed
    /\ lastOp = NoOp
    /\ queue = <<>>
    /\ sess = IdleSess
    /\ result_json \in {[i \in 1..Len(FieldIds) |-> NewField(FieldIds[i], t[i])] :
                            t \in {f \in [1..Len(FieldIds) -> 0..1000] :
                                     \A i \in 1..Len(FieldIds) :
                                        f[i] \in FieldInitTrust(FieldIds[i])}}
    /\ audit_jsonl = <<>>
    /\ cls = NoCall
    /\ keval = NoEval
    /\ ocr = NoOcr
    /\ worker = NoWorker

NextFile ==
    \/ \E j \in FileJobs \cup {AbsentJob}, f \in Range(FieldIds) \cup {AbsentField},
          u \in UserIds, v \in CorrectionValues : SubmitCorrection(j, f, u, v)
    \/ \E limit \in 1..MaxLimit : FileGetReviewQueue(limit)

SpecFile == InitFile /\ [][NextFile]_vars

---------------------------------------------------------------------------
(* SelectiveClassifier: app/services/k_eval/selective_classifier.py        *)

\* self.thresholds when none are passed to the constructor
DefaultThresholds ==
    [auto_accept |-> 900, light_review |-> 800, full_review |-> 700,
     manual_correction |-> 0]

\* self.domain_overrides when none are passed to the constructor
DefaultDomainOverrides ==
    [medical |-> [auto_accept |-> 950, light_review |-> 850],
     logistics |-> [auto_accept |-> 850, light_review |-> 750]]

\* dict.update
Update(d, o) ==
    [k \in DOMAIN d \cup DOMAIN o |-> IF k \in DOMAIN o THEN o[k] ELSE d[k]]

get_domain_thresholds_Swapped(thresholds, domain_overrides, domain) ==
    IF domain \in DOMAIN domain_overrides
    THEN Update(thresholds,
                domain_overrides[IF domain = "medical" THEN "logistics"
                                 ELSE "medical"])
    ELSE thresholds

\* SelectiveClassifier._get_domain_thresholds
get_domain_thresholds(thresholds, domain_overrides, domain) ==
    IF domain \in DOMAIN domain_overrides
    THEN Update(thresholds, domain_overrides[domain])
    ELSE thresholds

\* adjusted_confidence -= 0.15 in IEEE-754 doubles. On the grid of
\* thousandths the difference is the exact one except for 0.95 - 0.15,
\* which is 0.7999999999999999 (below 0.80); it is represented by the
\* grid point below 0.80.
OodPenalised(confidence) ==
    IF confidence = 950 THEN 799 ELSE confidence - 150

\* the chain with > in place of >=
RoutingTier_Strict(adjusted_confidence, thresholds) ==
    IF adjusted_confidence > thresholds.auto_accept
    THEN [review_action |-> "AUTO_ACCEPT", priority |-> "NONE",
          needs_review |-> FALSE, review_percentage |-> 0,
          reason |-> <<"High confidence", adjusted_confidence, ">=",
                       thresholds.auto_accept>>]
    ELSE IF adjusted_confidence > thresholds.light_review
    THEN [review_action |-> "LIGHT_REVIEW", priority |-> "LOW",
          needs_review |-> TRUE, review_percentage |-> 10,
          reason |-> <<"Good confidence", adjusted_confidence, ">=",
                       thresholds.light_review>>]
    ELSE IF adjusted_confidence > thresholds.full_review
    THEN [review_action |-> "FULL_REVIEW", priority |-> "HIGH",
          needs_review |-> TRUE, review_percentage |-> 100,
          reason |-> <<"Moderate confidence", adjusted_confidence, ">=",
                       thresholds.full_review>>]
    ELSE [review_action |-> "MANUAL_CORRECTION", priority |-> "CRITICAL",
          needs_review |-> TRUE, review_percentage |-> 100,
          reason |-> <<"Low confidence", adjusted_confidence, "<",
                       thresholds.full_review>>]

\* "Determine routing tier": the if/elif chain of classify
RoutingTier(adjusted_confidence, thresholds) ==
    IF adjusted_confidence >= thresholds.auto_accept
    THEN [review_action |-> "AUTO_ACCEPT", priority |-> "NONE",
          needs_review |-> FALSE, review_percentage |-> 0,
          reason |-> <<"High confidence", adjusted_confidence, ">=",
                       thresholds.auto_accept>>]
    ELSE IF adjusted_confidence >= thresholds.light_review
    THEN [review_action |-> "LIGHT_REVIEW", priority |-> "LOW",
          needs_review |-> TRUE, review_percentage |-> 10,
          reason |-> <<"Good confidence", adjusted_confidence, ">=",
                       thresholds.light_review>>]
    ELSE IF adjusted_confidence >= thresholds.full_review
    THEN [review_action |-> "FULL_REVIEW", priority |-> "HIGH",
          needs_review |-> TRUE, review_percentage |-> 100,
          reason |-> <<"Moderate confidence", adjusted_confidence, ">=",
                       thresholds.full_review>>]
    ELSE [review_action |-> "MANUAL_CORRECTION", priority |-> "CRITICAL",
          needs_review |-> TRUE, review_percentage |-> 100,
          reason |-> <<"Low confidence", adjusted_confidence, "<",
                       thresholds.full_review>>]

\* classify with the anomaly check made after the OOD penalty, and only
\* for documents that would not be accepted automatically anyway
classify_AnomalyLate(thresholds0, domain_overrides, confidence, domain, is_anomalous, is_ood) ==
    LET thresholds == get_domain_thresholds(thresholds0, domain_overrides, domain)
        penalised == IF is_ood THEN OodPenalised(confidence) ELSE confidence
        penalties_applied == IF is_ood THEN <<"ood_detected">> ELSE <<>>
        adjusted_confidence == Max(0, Min(1000, penalised))
        tier == RoutingTier(adjusted_confidence, thresholds)
    IN  IF is_anomalous /\ tier.review_action # "AUTO_ACCEPT"
        THEN [review_action |-> "FULL_REVIEW", confidence |-> confidence,
              adjusted_confidence |-> adjusted_confidence, priority |-> "HIGH",
              needs_review |-> TRUE,
              reason |-> <<"Document flagged as anomalous">>,
              penalties_applied |-> penalties_applied \o <<"anomaly_detected">>]
        ELSE [review_action |-> tier.review_action, confidence |-> confidence,
              adjusted_confidence |-> adjusted_confidence,
              priority |-> tier.priority, needs_review |-> tier.needs_review,
              review_percentage |-> tier.review_percentage,
              reason |-> tier.reason, penalties_applied |-> penalties_applied,
              thresholds_used |-> thresholds, domain |-> domain]

\* SelectiveClassifier.classify
classify(thresholds0, domain_overrides, confidence, domain, is_anomalous, is_ood) ==
    LET thresholds == get_domain_thresholds(thresholds0, domain_overrides, domain)
        penalised == IF is_ood THEN OodPenalised(confidence) ELSE confidence
        penalties_applied == IF is_ood THEN <<"ood_detected">> ELSE <<>>
        adjusted_confidence == Max(0, Min(1000, penalised))
        tier == RoutingTier(adjusted_confidence, thresholds)
    IN  IF is_anomalous
        THEN [review_action |-> "FULL_REVIEW", confidence |-> confidence,
              adjusted_confidence |-> confidence, priority |-> "HIGH",
              needs_review |-> TRUE,
              reason |-> <<"Document flagged as anomalous">>,
              penalties_applied |-> <<"anomaly_detected">>]
        ELSE [review_action |-> tier.review_action, confidence |-> confidence,
              adjusted_confidence |-> adjusted_confidence,
              priority |-> tier.priority, needs_review |-> tier.needs_review,
              review_percentage |-> tier.review_percentage,
              reason |-> tier.reason, penalties_applied |-> penalties_applied,
              thresholds_used |-> thresholds, domain |-> domain]

\* confidence scores in [0, 1], in thousandths
Confidences == 0..1000

\* the domains with an override, the default domain, and an unknown one
Domains == {"general", "medical", "logistics", "retail"}

\* the classify call on a SelectiveClassifier constructed with the defaults,
\* with the arguments drawn in the initial state
Classify ==
    /\ ~cls.called
    /\ cls' = [cls EXCEPT
                 !.called = TRUE,
                 !.result = classify(DefaultThresholds, DefaultDomainOverrides,
                                     cls.confidence, cls.domain,
                                     cls.is_anomalous, cls.is_ood)]
    /\ UNCHANGED <<jobs, regions, audit_logs, audit_seq, lastOp, queue, sess,
                   result_json, audit_jsonl, keval, ocr, worker>>

InitClassify ==
    /\ InitDbFixed
    /\ lastOp = NoOp
    /\ queue = <<>>
    /\ sess = IdleSess
    /\ result_json = <<>>
    /\ audit_jsonl = <<>>
    /\ cls \in {[NoCall EXCEPT !.confidence = c, !.domain = d,
                                !.is_anomalous = a, !.is_ood = o] :
                    c \in Confidences, d \in Domains,
                    a \in BOOLEAN, o \in BOOLEAN}
    /\ keval = NoEval
    /\ ocr = NoOcr
    /\ worker = NoWorker

NextClassify == Classify

SpecClassify == InitClassify /\ [][NextClassify]_vars

---------------------------------------------------------------------------
(* K-Eval pipeline (KEvalPipeline, EnsembleAggregator, TemperatureScaling)  *)
(*                                                                         *)
(* The component confidences are in thousandths, on the grid of tenths.    *)
(* Aggregated and calibrated confidences are in units of 1e-8, so that the *)
(* clamp of apply_temperature_scaling to [1e-7, 1 - 1e-7] is visible; a    *)
(* value that is not a multiple of the unit is rounded down, which keeps   *)
(* every comparison with a threshold (a multiple of 0.001).                *)

\* a confidence in thousandths, in units of 1e-8
ToFine(milli) == milli * 100000

\* a confidence in units of 1e-8, in thousandths (rounded down)
ToMilli(fine) == fine \div 100000

\* 1e-7, the clamp of apply_temperature_scaling
Epsilon == 10

\* 1.0 in units of 1e-8
FineOne == ToFine(1000)

\* the component confidences the calls are made with
ComponentConfidences == {0, 100, 200, 300, 400, 500, 600, 700, 800, 900, 1000}

\* component_weights=None
NoWeights == [none |-> TRUE]

\* KEvalPipeline._get_default_config
get_default_config ==
    [ensemble |-> [aggregation_method |-> "variance_weighted",
                   variance_penalty |-> 150],
     calibration |-> [optimal_temperatures |->
                         [global |-> 1000, medical |-> 1000, logistics |-> 1000]],
     confidence_scoring |-> [weights |-> [ocr_confidence |-> 400,
                                          lingua_confidence |-> 350,
                                          comply_confidence |-> 250]],
     selective_classification |-> [thresholds |-> DefaultThresholds,
                                   domain_overrides |-> DefaultDomainOverrides]]

\* a config/k_eval_config.yaml that names the weights by the keys that
\* aggregate_component_confidences reads, with the default values otherwise
YamlConfig ==
    [get_default_config EXCEPT
        !.confidence_scoring = [weights |-> [ocr |-> 400, lingua |-> 350,
                                              comply |-> 250]]]

\* the config file: None when it is missing or cannot be loaded
ConfigFiles == {None, "yaml"}

\* KEvalPipeline._load_config
load_config(config_file) ==
    IF config_file = None THEN get_default_config ELSE YamlConfig

\* the greatest m in lo..hi with b * m * m <= a
RECURSIVE SqrtSearch(_, _, _, _)
SqrtSearch(a, b, lo, hi) ==
    IF lo >= hi THEN lo
    ELSE LET mid == (lo + hi + 1) \div 2
         IN  IF b * mid * mid <= a THEN SqrtSearch(a, b, mid, hi)
             ELSE SqrtSearch(a, b, lo, mid - 1)

\* np.sqrt(a / b), rounded down
FloorSqrt(a, b) == SqrtSearch(a, b, 0, 5000)

\* np.sqrt(a / b), rounded up
CeilSqrt(a, b) ==
    LET m == FloorSqrt(a, b) IN IF b * m * m = a THEN m ELSE m + 1

\* the sum of the first n elements of a sequence
RECURSIVE SumTo(_, _)
SumTo(s, n) == IF n = 0 THEN 0 ELSE s[n] + SumTo(s, n - 1)

\* the sum of a sequence
SeqSum(s) == SumTo(s, Len(s))

\* np.average(confidences, weights=weights) with the weights normalised by
\* their sum, in units of 1e-4
WeightedMean(confidences, weights) ==
    (10 * SeqSum([i \in 1..Len(confidences) |-> weights[i] * confidences[i]]))
        \div SeqSum(weights)

\* n^2 times the sum of squared deviations from the unweighted mean, with
\* the confidences in tenths: np.var(confidences) is this over n^3, in
\* hundredths
SumSqDev(confidences) ==
    LET n == Len(confidences)
        k == [i \in 1..n |-> confidences[i] \div 100]
        total == SeqSum(k)
    IN  SeqSum([i \in 1..n |-> (n * k[i] - total) * (n * k[i] - total)])

\* np.var(confidences), in units of 1e-4
Variance(confidences) ==
    LET n == Len(confidences)
    IN  (100 * SumSqDev(confidences)) \div (n * n * n)

\* np.std(confidences), in units of 1e-4
StdDev(confidences) ==
    LET n == Len(confidences)
    IN  FloorSqrt(1000000 * SumSqDev(confidences), n * n * n)

aggregate_variance_weighted_Steep(variance_penalty, confidences, weights) ==
    LET n == Len(confidences)
        penalty == CeilSqrt(100 * variance_penalty * variance_penalty
                               * SumSqDev(confidences), n * n * n)
    IN  Max(0, Min(10000, WeightedMean(confidences, weights) - penalty))

aggregate_variance_weighted_NoPenalty(variance_penalty, confidences, weights) ==
    Max(0, Min(10000, WeightedMean(confidences, weights)))

\* EnsembleAggregator._aggregate_variance_weighted, in units of 1e-4: the
\* weighted mean less variance_penalty times the standard deviation
aggregate_variance_weighted(variance_penalty, confidences, weights) ==
    LET n == Len(confidences)
        mean_conf == WeightedMean(confidences, weights)
        penalty == CeilSqrt(variance_penalty * variance_penalty
                               * SumSqDev(confidences), n * n * n)
        penalized_conf == mean_conf - penalty
    IN  Max(0, Min(10000, penalized_conf))

\* np.median of three confidences, in units of 1e-4
Median(confidences) ==
    10 * (CHOOSE x \in Range(confidences) :
             /\ Cardinality({i \in 1..Len(confidences) : confidences[i] <= x}) * 2
                   >= Len(confidences)
             /\ Cardinality({i \in 1..Len(confidences) : confidences[i] >= x}) * 2
                   >= Len(confidences))

\* EnsembleAggregator.aggregate_confidences
aggregate_confidences(aggregation_method, variance_penalty, confidences, weights) ==
    IF confidences = <<>>
    THEN [raised |-> None, aggregated_confidence |-> ToFine(500),
          variance |-> 0, std_dev |-> 0, disagreement |-> 0, num_sources |-> 0]
    ELSE LET aggregated ==
                 IF aggregation_method = "median" THEN Median(confidences)
                 ELSE IF aggregation_method = "variance_weighted"
                 THEN aggregate_variance_weighted(variance_penalty, confidences,
                                                  weights)
                 ELSE WeightedMean(confidences, weights)
             std_dev == StdDev(confidences)
         IN  [raised |-> None, aggregated_confidence |-> 10000 * aggregated,
              variance |-> Variance(confidences),
              std_dev |-> std_dev,
              disagreement |-> std_dev,
              num_sources |-> Len(confidences)]

\* EnsembleAggregator.aggregate_component_confidences: the weights are read
\* under the keys 'ocr', 'lingua' and 'comply'
aggregate_component_confidences(aggregation_method, variance_penalty, ocr_confidence, lingua_confidence, comply_confidence, component_weights) ==
    LET cw == IF component_weights = NoWeights
              THEN [ocr |-> 400, lingua |-> 350, comply |-> 250]
              ELSE component_weights
    IN  IF ~({"ocr", "lingua", "comply"} \subseteq DOMAIN cw)
        THEN [raised |-> "KeyError"]
        ELSE aggregate_confidences(aggregation_method, variance_penalty,
                 <<ocr_confidence, lingua_confidence, comply_confidence>>,
                 <<cw.ocr, cw.lingua, cw.comply>>)

\* the confidences of the calibration samples, in thousandths
SampleConfidences == {200, 800}

\* the temperatures the bounded search of calibrate is followed over: the
\* ends of search_range (0.5, 5.0), 1.0 and 2.0
SearchTemperatures == {500, 1000, 2000, 5000}

\* 1 / (1 + exp(-log(c / (1 - c)) / T)) for the sample confidences and the
\* temperatures other than 1.0, in units of 1e-8
ScaledLogit(milli, temperature) ==
    IF milli = 200
    THEN (IF temperature = 500 THEN 5882352
          ELSE IF temperature = 2000 THEN 33333333 ELSE 43112592)
    ELSE (IF temperature = 500 THEN 94117647
          ELSE IF temperature = 2000 THEN 66666666 ELSE 56887407)

\* what the rounding of np.log and np.exp leaves of a confidence taken to
\* its logit and back: the confidence itself (0), or a value just below
\* it (-1)
Roundings == {-1, 0}

\* TemperatureScaling.apply_temperature_scaling
apply_temperature_scaling(confidence, temperature, rounding) ==
    LET clamped == Max(Epsilon, Min(FineOne - Epsilon, confidence))
    IN  IF temperature = 1000 THEN clamped + rounding
        ELSE ScaledLogit(ToMilli(clamped), temperature)

\* KEvalPipeline.score_and_route
score_and_route(config, ocr_confidence, lingua_confidence, comply_confidence, domain, is_anomalous, is_ood, rounding) ==
    LET scoring_config == config.confidence_scoring
        component_weights == IF "weights" \in DOMAIN scoring_config
                             THEN scoring_config.weights ELSE NoWeights
        aggregation_result ==
            aggregate_component_confidences(
                config.ensemble.aggregation_method,
                config.ensemble.variance_penalty,
                ocr_confidence, lingua_confidence, comply_confidence,
                component_weights)
    IN  IF aggregation_result.raised # None
        THEN [raised |-> aggregation_result.raised]
        ELSE LET aggregated_confidence == aggregation_result.aggregated_confidence
                 optimal_temps == config.calibration.optimal_temperatures
                 domain_temp == IF domain \in DOMAIN optimal_temps
                                THEN optimal_temps[domain]
                                ELSE IF "global" \in DOMAIN optimal_temps
                                THEN optimal_temps.global ELSE 1000
                 calibrated_confidence ==
                     apply_temperature_scaling(aggregated_confidence, domain_temp,
                                               rounding)
                 routing_result ==
                     classify(config.selective_classification.thresholds,
                              config.selective_classification.domain_overrides,
                              ToMilli(calibrated_confidence), domain,
                              is_anomalous, is_ood)
             IN  [raised |-> None,
                  final_confidence |-> calibrated_confidence,
                  aggregated_confidence |-> aggregated_confidence,
                  review_action |-> routing_result.review_action,
                  priority |-> routing_result.priority,
                  needs_review |-> routing_result.needs_review,
                  review_percentage |->
                      IF "review_percentage" \in DOMAIN routing_result
                      THEN routing_result.review_percentage ELSE 0,
                  variance |-> aggregation_result.variance,
                  disagreement |-> aggregation_result.disagreement,
                  temperature_applied |-> domain_temp,
                  routing_reason |-> routing_result.reason,
                  penalties_applied |-> routing_result.penalties_applied,
                  domain |-> domain]

\* KEvalPipeline.__init__ on a config file, and the arguments of the calls
\* still to be made
NewEval(config_file, ocr_confidence, lingua_confidence, comply_confidence, domain, is_anomalous, is_ood) ==
    [config_file |-> config_file, config |-> load_config(config_file),
     optimal_temperature |-> 1000,
     ocr_confidence |-> ocr_confidence, lingua_confidence |-> lingua_confidence,
     comply_confidence |-> comply_confidence, domain |-> domain,
     is_anomalous |-> is_anomalous, is_ood |-> is_ood,
     scored |-> FALSE, result |-> [raised |-> None],
     calibrations |-> 0, samples |-> <<>>]

\* the score_and_route call, with the arguments drawn in the initial state
ScoreAndRoute ==
    /\ "config" \in DOMAIN keval
    /\ ~keval.scored
    /\ \E rounding \in Roundings :
          keval' = [keval EXCEPT
                      !.scored = TRUE,
                      !.result = score_and_route(keval.config,
                                     keval.ocr_confidence, keval.lingua_confidence,
                                     keval.comply_confidence, keval.domain,
                                     keval.is_anomalous, keval.is_ood, rounding)]
    /\ UNCHANGED <<jobs, regions, audit_logs, audit_seq, lastOp, queue, sess,
                   result_json, audit_jsonl, cls, ocr, worker>>

InitKEval ==
    /\ InitDbFixed
    /\ lastOp = NoOp
    /\ queue = <<>>
    /\ sess = IdleSess
    /\ result_json = <<>>
    /\ audit_jsonl = <<>>
    /\ cls = NoCall
    /\ keval \in {NewEval(f, o, l, c, d, a, x) :
                     f \in ConfigFiles, o \in ComponentConfidences,
                     l \in ComponentConfidences, c \in ComponentConfidences,
                     d \in Domains, a \in BOOLEAN, x \in BOOLEAN}
    /\ ocr = NoOcr
    /\ worker = NoWorker

NextKEval == ScoreAndRoute

SpecKEval == InitKEval /\ [][NextKEval]_vars

\* the most samples in a calibrate call
MaxSamples == 2

\* the most calibrate calls on a pipeline
MaxCalibrations == 2

\* the calibration data: one confidence and one correctness per sample
Samples ==
    UNION {[1..n -> [confidence : SampleConfidences, correct : BOOLEAN]] :
              n \in 0..MaxSamples}

\* one bin of _compute_ece: bin_size * abs(bin_accuracy - bin_confidence),
\* in units of 1e-8, and 0 for a bin without samples
BinError(samples, scaled_confidences, b) ==
    LET in_bin == {i \in 1..Len(samples) :
                      scaled_confidences[i] \div ToFine(100) + 1 = b}
        correct == Cardinality({i \in in_bin : samples[i].correct})
        confidence == SeqSum([i \in 1..Len(samples) |->
                                 IF i \in in_bin THEN scaled_confidences[i]
                                 ELSE 0])
    IN  IF in_bin = {} THEN 0
        ELSE IF FineOne * correct >= confidence
        THEN FineOne * correct - confidence
        ELSE confidence - FineOne * correct

\* TemperatureScaling._compute_ece, times len(confidences), in units of
\* 1e-8: the sum over the bins that hold a sample (the loop passes over the
\* other bins), each counted at its first sample
compute_ece(samples, temperature) ==
    LET scaled_confidences ==
            [i \in 1..Len(samples) |->
                apply_temperature_scaling(ToFine(samples[i].confidence),
                                          temperature, 0)]
        bin == [i \in 1..Len(samples) |->
                   scaled_confidences[i] \div ToFine(100) + 1]
    IN  SeqSum([i \in 1..Len(samples) |->
                   IF \E j \in 1..(i - 1) : bin[j] = bin[i] THEN 0
                   ELSE BinError(samples, scaled_confidences, bin[i])])

\* minimize_scalar(..., bounds=search_range, method='bounded') over the
\* expected calibration error: the temperature of least error; where the
\* error is flat the search keeps stepping to the right, and ends at the
\* upper bound
MinimizeEce(samples) ==
    LET Least(ece) ==
            LET least == {t \in SearchTemperatures :
                             \A u \in SearchTemperatures : ece[t] <= ece[u]}
            IN  CHOOSE t \in least : \A u \in least : u <= t
    IN  Least([t \in SearchTemperatures |-> compute_ece(samples, t)])

\* the temperature the search finds for each sample set, as a table
\* (merged with the empty function, which makes it explicit)
OptimalTemperature == [samples \in Samples |-> MinimizeEce(samples)] @@ <<>>

Calibrate_WritesConfig(samples) ==
    /\ "config" \in DOMAIN keval
    /\ keval.calibrations < MaxCalibrations
    /\ keval' = [keval EXCEPT
                   !.optimal_temperature = OptimalTemperature[samples],
                   !.config.calibration.optimal_temperatures.global =
                       OptimalTemperature[samples],
                   !.samples = samples,
                   !.calibrations = @ + 1]
    /\ UNCHANGED <<jobs, regions, audit_logs, audit_seq, lastOp, queue, sess,
                   result_json, audit_jsonl, cls, ocr, worker>>

\* KEvalPipeline.calibrate: TemperatureScaling.calibrate(method="ece")
\* stores what the search returns in optimal_temperature
Calibrate(samples) ==
    /\ "config" \in DOMAIN keval
    /\ keval.calibrations < MaxCalibrations
    /\ keval' = [keval EXCEPT !.optimal_temperature = OptimalTemperature[samples],
                             !.samples = samples,
                             !.calibrations = @ + 1]
    /\ UNCHANGED <<jobs, regions, audit_logs, audit_seq, lastOp, queue, sess,
                   result_json, audit_jsonl, cls, ocr, worker>>

InitCalibrate ==
    /\ InitDbFixed
    /\ lastOp = NoOp
    /\ queue = <<>>
    /\ sess = IdleSess
    /\ result_json = <<>>
    /\ audit_jsonl = <<>>
    /\ cls = NoCall
    /\ keval \in {NewEval(f, 900, l, l, d, FALSE, FALSE) :
                     f \in ConfigFiles, l \in {500, 900}, d \in Domains}
    /\ ocr = NoOcr
    /\ worker = NoWorker

NextCalibrate ==
    \/ \E samples \in Samples : Calibrate(samples)
    \/ ScoreAndRoute

SpecCalibrate == InitCalibrate /\ [][NextCalibrate]_vars

---------------------------------------------------------------------------
(* MultiTrackOCR: app/services/k_ocr/multi_track_ocr.py                     *)

\* fallback_conf = None
NoConfidence == -1

ModelTypes == {"printed", "handwritten"}

\* what TrOCR inference does on the image with one model: it fails (any
\* exception inside run_inference), or it recognises a text with a
\* confidence
EngineOutcomes ==
    {[fails |-> TRUE, confidence |-> 0]}
        \cup {[fails |-> FALSE, confidence |-> c] : c \in {0, 500, 700, 900}}

\* the text a model recognises on the image
RecognisedText(model_type) ==
    IF model_type = "printed" THEN "printed text" ELSE "handwritten text"

run_inference_Raises(engine, model_type) ==
    IF engine[model_type].fails
    THEN [raised |-> "Exception", text |-> "", confidence |-> 0]
    ELSE [raised |-> None,
          text |-> RecognisedText(model_type),
          confidence |-> engine[model_type].confidence]

\* TrOCREngine.run_inference: every exception is caught and turned into
\* ("", 0.0, None)
run_inference(engine, model_type) ==
    IF engine[model_type].fails
    THEN [raised |-> None, text |-> "", confidence |-> 0]
    ELSE [raised |-> None,
          text |-> RecognisedText(model_type),
          confidence |-> engine[model_type].confidence]

\* MultiTrackOCR._select_primary_model
select_primary_model(text_type_detection_threshold, model_priority, text_type, type_confidence) ==
    IF type_confidence >= text_type_detection_threshold
    THEN (IF text_type = "printed" THEN "printed"
          ELSE IF text_type = "handwritten" THEN "handwritten"
          ELSE model_priority)
    ELSE model_priority

\* the record process_region returns
OcrRecord(final, primary, text_type, type_confidence, final_model, primary_model, switched, fallback_conf) ==
    [raised |-> None,
     text |-> final.text, raw_text |-> primary.text,
     confidence |-> final.confidence,
     text_type |-> text_type, text_type_confidence |-> type_confidence,
     model_used |-> final_model, primary_model |-> primary_model,
     switched |-> switched,
     primary_confidence |-> primary.confidence,
     fallback_confidence |-> IF switched THEN fallback_conf ELSE NoConfidence]

process_region_TiesSwitch(self, engine, text_type, type_confidence) ==
    LET primary_model == select_primary_model(self.text_type_detection_threshold,
                             self.model_priority, text_type, type_confidence)
        alternate_model == IF primary_model = "printed" THEN "handwritten"
                           ELSE "printed"
        primary == run_inference(engine, primary_model)
        fallback == run_inference(engine, alternate_model)
    IN  IF primary.raised # None
        THEN [runs |-> <<primary_model>>, result |-> [raised |-> primary.raised]]
        ELSE IF self.fallback_enabled
                /\ primary.confidence < self.confidence_threshold
        THEN (IF fallback.raised # None
              THEN [runs |-> <<primary_model, alternate_model>>,
                    result |-> [raised |-> fallback.raised]]
              ELSE IF fallback.confidence >= primary.confidence
              THEN [runs |-> <<primary_model, alternate_model>>,
                    result |-> OcrRecord(fallback, primary, text_type,
                                         type_confidence, alternate_model,
                                         primary_model, TRUE,
                                         fallback.confidence)]
              ELSE [runs |-> <<primary_model, alternate_model>>,
                    result |-> OcrRecord(primary, primary, text_type,
                                         type_confidence, primary_model,
                                         primary_model, FALSE,
                                         fallback.confidence)])
        ELSE [runs |-> <<primary_model>>,
              result |-> OcrRecord(primary, primary, text_type, type_confidence,
                                   primary_model, primary_model, FALSE,
                                   NoConfidence)]

\* MultiTrackOCR.process_region, after classify_text_type has returned
\* (text_type, type_confidence): the record returned, and the models run
\* on the engine, in order
process_region(self, engine, text_type, type_confidence) ==
    LET primary_model == select_primary_model(self.text_type_detection_threshold,
                             self.model_priority, text_type, type_confidence)
        alternate_model == IF primary_model = "printed" THEN "handwritten"
                           ELSE "printed"
        primary == run_inference(engine, primary_model)
        fallback == run_inference(engine, alternate_model)
    IN  IF primary.raised # None
        THEN [runs |-> <<primary_model>>, result |-> [raised |-> primary.raised]]
        ELSE IF self.fallback_enabled
                /\ primary.confidence < self.confidence_threshold
        THEN (IF fallback.raised # None
              THEN [runs |-> <<primary_model, alternate_model>>,
                    result |-> [raised |-> fallback.raised]]
              ELSE IF fallback.confidence > primary.confidence
              THEN [runs |-> <<primary_model, alternate_model>>,
                    result |-> OcrRecord(fallback, primary, text_type,
                                         type_confidence, alternate_model,
                                         primary_model, TRUE,
                                         fallback.confidence)]
              ELSE [runs |-> <<primary_model, alternate_model>>,
                    result |-> OcrRecord(primary, primary, text_type,
                                         type_confidence, primary_model,
                                         primary_model, FALSE,
                                         fallback.confidence)])
        ELSE [runs |-> <<primary_model>>,
              result |-> OcrRecord(primary, primary, text_type, type_confidence,
                                   primary_model, primary_model, FALSE,
                                   NoConfidence)]

\* MultiTrackOCR.__init__ with the default thresholds
NewMultiTrackOCR(fallback_enabled, model_priority) ==
    [confidence_threshold |-> 700, text_type_detection_threshold |-> 750,
     fallback_enabled |-> fallback_enabled, model_priority |-> model_priority]

TextTypes == {"printed", "handwritten", "mixed"}

\* the process_region call, with the image (what the text classifier and
\* the engine make of it) drawn in the initial state
ProcessRegion ==
    /\ ~ocr.called
    /\ LET ret == process_region(ocr.self, ocr.engine, ocr.text_type,
                                 ocr.type_confidence)
       IN  ocr' = [ocr EXCEPT !.called = TRUE, !.runs = ret.runs,
                              !.result = ret.result]
    /\ UNCHANGED <<jobs, regions, audit_logs, audit_seq, lastOp, queue, sess,
                   result_json, audit_jsonl, cls, keval, worker>>

InitOcr ==
    /\ InitDbFixed
    /\ lastOp = NoOp
    /\ queue = <<>>
    /\ sess = IdleSess
    /\ result_json = <<>>
    /\ audit_jsonl = <<>>
    /\ cls = NoCall
    /\ keval = NoEval
    /\ ocr \in {[called |-> FALSE, self |-> NewMultiTrackOCR(f, p),
                 engine |-> e, text_type |-> t, type_confidence |-> tc,
                 runs |-> <<>>, result |-> [raised |-> None]] :
                   f \in BOOLEAN, p \in ModelTypes,
                   e \in [ModelTypes -> EngineOutcomes],
                   t \in TextTypes, tc \in {600, 900}}
    /\ worker = NoWorker

NextOcr == ProcessRegion

SpecOcr == InitOcr /\ [][NextOcr]_vars

---------------------------------------------------------------------------
(* Document worker: app/worker/process_document.py, app/services/job_queue.py *)

\* how the installed RQ reads the timeout= keyword of Queue.enqueue: as the
\* job's timeout, or as a keyword argument of the function to call
RqTimeoutKinds == {"job_timeout", "function_kwarg"}

\* what the processing steps between the first and the last update do, left
\* to themselves: run to the end, raise, or run into the job timeout (RQ
\* raises JobTimeoutException, an Exception, inside the function)
Pipelines == {"completes", "raises", "times_out"}

\* obj_in as the worker passes it: a plain dict
Dict(data) == [type |-> "dict", data |-> data]

\* JobCRUD.update: obj_in.dict(exclude_unset=True) is a method of the
\* JobUpdate schema; a dict has none, and the call raises AttributeError
\* before any field is set
job_crud_update(rows, job_id, obj_in) ==
    IF obj_in.type = "dict"
    THEN [raised |-> "AttributeError", jobs |-> rows]
    ELSE [raised |-> None,
          jobs |-> [rows EXCEPT ![job_id] = [status |-> obj_in.data.status]]]

\* the except block of process_document_job: the update to FAILED is
\* itself not guarded
HandleFailure(rows, job_id) ==
    LET failed == job_crud_update(rows, job_id, Dict([status |-> "failed"]))
    IN  IF failed.raised # None
        THEN [jobs |-> failed.jobs, ret |-> failed.raised]
        ELSE [jobs |-> failed.jobs, ret |-> "False"]

\* process_document_job
process_document_job(rows, job_id, pipeline) ==
    IF job_id \notin DOMAIN rows
    THEN [jobs |-> rows, ret |-> "False"]
    ELSE LET processing ==
                 job_crud_update(rows, job_id, Dict([status |-> "processing"]))
         IN  IF processing.raised # None
             THEN HandleFailure(processing.jobs, job_id)
             ELSE IF pipeline # "completes"
             THEN HandleFailure(processing.jobs, job_id)
             ELSE LET done == job_crud_update(processing.jobs, job_id,
                                              Dict([status |-> "done"]))
                  IN  IF done.raised # None
                      THEN HandleFailure(done.jobs, job_id)
                      ELSE [jobs |-> done.jobs, ret |-> "True"]

\* enqueue_job: queue.enqueue(process_document_job, job_id, timeout=600)
EnqueueJob(job_id) ==
    /\ worker[job_id].pc = "new"
    /\ \E kind \in RqTimeoutKinds :
          worker' = [worker EXCEPT ![job_id] =
                        [pc |-> "enqueued", timeout |-> kind]]
    /\ UNCHANGED <<jobs, regions, audit_logs, audit_seq, lastOp, queue, sess,
                   result_json, audit_jsonl, cls, keval, ocr>>

\* the RQ worker performs the job: it calls process_document_job(job_id),
\* with timeout=600 as well where RQ passes the keyword on, which the
\* function does not take (TypeError)
PerformJob(job_id, pipeline) ==
    /\ worker[job_id].pc = "enqueued"
    /\ IF worker[job_id].timeout = "function_kwarg"
       THEN /\ worker' = [worker EXCEPT ![job_id] =
                            [pc |-> "finished", timeout |-> @.timeout,
                             started |-> FALSE, pipeline |-> pipeline,
                             ret |-> "TypeError"]]
            /\ UNCHANGED jobs
       ELSE LET run == process_document_job(jobs, job_id, pipeline)
            IN  /\ worker' = [worker EXCEPT ![job_id] =
                                [pc |-> "finished", timeout |-> @.timeout,
                                 started |-> job_id \in DOMAIN jobs,
                                 pipeline |-> pipeline, ret |-> run.ret]]
                /\ jobs' = run.jobs
    /\ UNCHANGED <<regions, audit_logs, audit_seq, lastOp, queue, sess,
                   result_json, audit_jsonl, cls, keval, ocr>>

\* the jobs as JobCRUD.create leaves them
InitWorker ==
    /\ jobs = [j \in JobIds |-> [status |-> "queued"]]
    /\ regions = [r \in RegionIds |-> NewRegion(r, 500)]
    /\ audit_logs = <<>>
    /\ audit_seq = 0
    /\ lastOp = NoOp
    /\ queue = <<>>
    /\ sess = IdleSess
    /\ result_json = <<>>
    /\ audit_jsonl = <<>>
    /\ cls = NoCall
    /\ keval = NoEval
    /\ ocr = NoOcr
    /\ worker = NoWorker

NextWorker ==
    \/ \E j \in JobIds : EnqueueJob(j)
    \/ \E j \in JobIds, p \in Pipelines : PerformJob(j, p)
    \/ \E j \in JobIds : DeleteJob(j)

SpecWorker == InitWorker /\ [][NextWorker]_vars

\* the RQ worker performs every job that is enqueued
SpecWorkerFair ==
    /\ SpecWorker
    /\ \A j \in JobIds : WF_vars(\E p \in Pipelines : PerformJob(j, p))

---------------------------------------------------------------------------
(* The region loop of the document worker: app/worker/process_document.py, *)
(* app/services/trust_score.py. One step is the loop body for one region   *)
(* of a page: extraction, normalisation, PII detection, trust score and    *)
(* the Region row added to the session.                                    *)

\* TrustScoreService.weights
TrustWeights ==
    [ocr_confidence |-> 500, translation_confidence |-> 250,
     pii_confidence |-> 150, layout_confidence |-> 100]

\* TrustScoreService.thresholds: the least value each component counts as
TrustThresholds ==
    [ocr_confidence |-> 300, translation_confidence |-> 400,
     pii_confidence |-> 500, layout_confidence |-> 400]

\* round(x, 3) of a score in millionths, in thousandths; the scores of
\* the confidences drawn below are whole thousandths
Round3(micro) == (micro + 500) \div 1000

\* TrustScoreService.calculate_trust_score on the dict the worker passes
\* (all four keys, no 'penalties')
calculate_trust_score(confidences) ==
    LET ocr_conf == Max(confidences.ocr_confidence,
                        TrustThresholds.ocr_confidence)
        translation_conf == Max(confidences.translation_confidence,
                                TrustThresholds.translation_confidence)
        pii_conf == Max(confidences.pii_confidence,
                        TrustThresholds.pii_confidence)
        layout_conf == Max(confidences.layout_confidence,
                           TrustThresholds.layout_confidence)
        weighted_score == ocr_conf * TrustWeights.ocr_confidence
                          + translation_conf * TrustWeights.translation_confidence
                          + pii_conf * TrustWeights.pii_confidence
                          + layout_conf * TrustWeights.layout_confidence
    IN  Round3(Max(0, Min(1000000, weighted_score)))

\* the regions LayoutService.detect_regions returns: a label, and a
\* confidence unless the detector gives none
LayoutRegions ==
    [label : {"text", "table"}]
        \cup [label : {"text", "table"}, confidence : ComponentConfidences]

\* what the extraction of a region gives: the OCR result of a text region,
\* or the best table of a table region; raises is a table extraction
\* ending in an exception; ("", 0.0) is a failed extraction
Extractions ==
    {[raises |-> FALSE, text |-> "", confidence |-> 0],
     [raises |-> TRUE, text |-> "", confidence |-> 0]}
        \cup [raises : {FALSE}, text : {"a"}, confidence : {300, 800, 1000}]

\* norm_result['confidence'] of TextNormalizationService.normalize_text
NormConfidences == {100, 900}

\* pii_result['entities']: the confidence of each entity found
PiiEntities == {<<>>, <<500>>, <<900, 500>>}

\* max([e.get('confidence', 0) for e in pii_detected], default=1.0)
PiiConfidence(pii_detected) ==
    IF pii_detected = <<>> THEN 1000
    ELSE CHOOSE c \in Range(pii_detected) : \A d \in Range(pii_detected) : d <= c

\* the Region row of the loop body
RegionRow(r, label, raw_text, ocr_confidence, normalized_text, translation_confidence, pii_detected, trust_score) ==
    [job_id |-> RegionJob(r), label |-> label, raw_text |-> raw_text,
     ocr_confidence |-> ocr_confidence, normalized_text |-> normalized_text,
     translation_confidence |-> translation_confidence,
     pii_detected |-> pii_detected, trust_score |-> trust_score,
     human_verified |-> FALSE, verified_value |-> None,
     created_at |-> RegionCreatedAt(r)]

\* the body of the region loop of process_document_job for one region
process_region_of_page(r, region, extraction, norm_confidence, pii_entities) ==
    LET failed_table == region.label = "table" /\ extraction.raises
        region_label == IF failed_table THEN "text" ELSE region.label
        raw_text == IF failed_table THEN "" ELSE extraction.text
        ocr_confidence == IF failed_table THEN 0 ELSE extraction.confidence
        normalised == raw_text # "" /\ region_label # "table"
        normalized_text == raw_text
        translation_confidence == IF normalised THEN norm_confidence ELSE 1000
        pii_detected == IF normalized_text # "" THEN pii_entities ELSE <<>>
        trust_score ==
            calculate_trust_score(
                [ocr_confidence |-> ocr_confidence,
                 translation_confidence |-> translation_confidence,
                 pii_confidence |-> PiiConfidence(pii_detected),
                 layout_confidence |-> IF "confidence" \in DOMAIN region
                                       THEN region.confidence ELSE 800])
    IN  RegionRow(r, region_label, raw_text, ocr_confidence, normalized_text,
                  translation_confidence, pii_detected, trust_score)

\* one pass of the region loop: the Region row is added for the job being
\* processed; worker keeps the region the layout service gave
ProcessPageRegion(r, region, extraction, norm_confidence, pii_entities) ==
    /\ r \notin DOMAIN regions
    /\ RegionJob(r) \in DOMAIN jobs
    /\ ~(region.label = "text" /\ extraction.raises)
    /\ regions' = [x \in DOMAIN regions \cup {r} |->
                      IF x = r
                      THEN process_region_of_page(r, region, extraction,
                                                  norm_confidence, pii_entities)
                      ELSE regions[x]]
    /\ worker' = [worker EXCEPT ![RegionJob(r)] =
                     [pc |-> "regions", region_id |-> r, region |-> region]]
    /\ UNCHANGED <<jobs, audit_logs, audit_seq, lastOp, queue, sess,
                   result_json, audit_jsonl, cls, keval, ocr>>

\* the jobs as JobCRUD.create leaves them, no region stored yet
InitRegions ==
    /\ jobs = [j \in JobIds |-> [status |-> "queued"]]
    /\ regions = [r \in {} |-> NoRow]
    /\ audit_logs = <<>>
    /\ audit_seq = 0
    /\ lastOp = NoOp
    /\ queue = <<>>
    /\ sess = IdleSess
    /\ result_json = <<>>
    /\ audit_jsonl = <<>>
    /\ cls = NoCall
    /\ keval = NoEval
    /\ ocr = NoOcr
    /\ worker = NoWorker

NextRegions ==
    \E r \in RegionIds, region \in LayoutRegions, extraction \in Extractions,
       norm_confidence \in NormConfidences, pii_entities \in PiiEntities :
        ProcessPageRegion(r, region, extraction, norm_confidence, pii_entities)

SpecRegions == InitRegions /\ [][NextRegions]_vars

---------------------------------------------------------------------------
(* ConfidenceScorer: app/services/k_ocr/confidence_scorer.py. The trust    *)
(* score is in millionths, its components and thresholds in thousandths.   *)

\* the default weights of ConfidenceScorer
ScorerWeights ==
    [ocr_confidence |-> 500, language_model_confidence |-> 200,
     dictionary_match |-> 150, pattern_validation |-> 150]

\* the default thresholds of ConfidenceScorer
ScorerThresholds ==
    [high_confidence |-> 850, good_confidence |-> 750,
     moderate_confidence |-> 600, low_confidence |-> 0]

\* the default penalties of ConfidenceScorer
ScorerPenalties ==
    [model_switch_penalty |-> 100, unknown_word_penalty |-> 50,
     pattern_mismatch_penalty |-> 100]

\* ConfidenceScorer.__init__: None (or an empty dict) gives the defaults
NewConfidenceScorer(weights, thresholds, penalties) ==
    [weights |-> IF weights = NoWeights THEN ScorerWeights ELSE weights,
     thresholds |-> IF thresholds = NoWeights THEN ScorerThresholds
                    ELSE thresholds,
     penalties |-> IF penalties = NoWeights THEN ScorerPenalties ELSE penalties]

\* ConfidenceScorer._get_review_action
get_review_action(self, trust_score) ==
    IF trust_score >= 1000 * self.thresholds.high_confidence
    THEN "auto_accept"
    ELSE IF trust_score >= 1000 * self.thresholds.good_confidence
    THEN "light_review"
    ELSE IF trust_score >= 1000 * self.thresholds.moderate_confidence
    THEN "full_review"
    ELSE "manual_correction"

\* the cap of the unknown-word penalty, 0.20
UnknownWordCap == 200

ConfidenceScorer_calculate_trust_score_Uncapped(self, ocr_confidence, lm_confidence, dictionary_match, pattern_validation, model_switched, unknown_word_count, pattern_matched) ==
    LET trust_score ==
            Max(0, Min(1000000,
                ocr_confidence * self.weights.ocr_confidence
                + lm_confidence * self.weights.language_model_confidence
                + dictionary_match * self.weights.dictionary_match
                + pattern_validation * self.weights.pattern_validation
                - (IF model_switched
                   THEN 1000 * self.penalties.model_switch_penalty ELSE 0)
                - 1000 * unknown_word_count * self.penalties.unknown_word_penalty
                - (IF pattern_matched
                   THEN 0 ELSE 1000 * self.penalties.pattern_mismatch_penalty)))
    IN  [trust_score |-> trust_score,
         components |-> [ocr_confidence |-> ocr_confidence,
                         lm_confidence |-> lm_confidence,
                         dictionary_match |-> dictionary_match,
                         pattern_validation |-> pattern_validation],
         penalties_applied |->
             (IF model_switched THEN <<"model_switch">> ELSE <<>>)
             \o (IF unknown_word_count > 0
                 THEN <<"unknown_words_" \o ToString(unknown_word_count)>>
                 ELSE <<>>)
             \o (IF pattern_matched THEN <<>> ELSE <<"pattern_mismatch">>),
         review_action |-> get_review_action(self, trust_score),
         needs_review |-> get_review_action(self, trust_score) # "auto_accept"]

\* ConfidenceScorer.calculate_trust_score
ConfidenceScorer_calculate_trust_score(self, ocr_confidence, lm_confidence, dictionary_match, pattern_validation, model_switched, unknown_word_count, pattern_matched) ==
    LET weighted ==
            ocr_confidence * self.weights.ocr_confidence
            + lm_confidence * self.weights.language_model_confidence
            + dictionary_match * self.weights.dictionary_match
            + pattern_validation * self.weights.pattern_validation
        after_switch ==
            IF model_switched
            THEN weighted - 1000 * self.penalties.model_switch_penalty
            ELSE weighted
        penalty == Min(1000 * unknown_word_count
                          * self.penalties.unknown_word_penalty,
                       1000 * UnknownWordCap)
        after_unknown ==
            IF unknown_word_count > 0 THEN after_switch - penalty
            ELSE after_switch
        after_pattern ==
            IF ~pattern_matched
            THEN after_unknown - 1000 * self.penalties.pattern_mismatch_penalty
            ELSE after_unknown
        trust_score == Max(0, Min(1000000, after_pattern))
        review_action == get_review_action(self, trust_score)
    IN  [trust_score |-> trust_score,
         components |-> [ocr_confidence |-> ocr_confidence,
                         lm_confidence |-> lm_confidence,
                         dictionary_match |-> dictionary_match,
                         pattern_validation |-> pattern_validation],
         penalties_applied |->
             (IF model_switched THEN <<"model_switch">> ELSE <<>>)
             \o (IF unknown_word_count > 0
                 THEN <<"unknown_words_" \o ToString(unknown_word_count)>>
                 ELSE <<>>)
             \o (IF ~pattern_matched THEN <<"pattern_mismatch">> ELSE <<>>),
         review_action |-> review_action,
         needs_review |-> review_action # "auto_accept"]

\* the scores validate_pattern returns
PatternScores == {200, 300, 400, 500, 700, 900, 1000}

\* language-model and dictionary scores
MatchScores == {0, 500, 1000}

\* the most unknown words of a call
MaxUnknownWords == 5

\* the calculate_trust_score call, with the arguments drawn in the initial
\* state
CalculateTrustScore ==
    /\ "scorer" \in DOMAIN ocr
    /\ ~ocr.called
    /\ ocr' = [ocr EXCEPT
                 !.called = TRUE,
                 !.result = ConfidenceScorer_calculate_trust_score(ocr.scorer,
                                ocr.ocr_confidence, ocr.lm_confidence,
                                ocr.dictionary_match, ocr.pattern_validation,
                                ocr.model_switched, ocr.unknown_word_count,
                                ocr.pattern_matched)]
    /\ UNCHANGED <<jobs, regions, audit_logs, audit_seq, lastOp, queue, sess,
                   result_json, audit_jsonl, cls, keval, worker>>

InitScorer ==
    /\ InitDbFixed
    /\ lastOp = NoOp
    /\ queue = <<>>
    /\ sess = IdleSess
    /\ result_json = <<>>
    /\ audit_jsonl = <<>>
    /\ cls = NoCall
    /\ keval = NoEval
    /\ ocr \in {[called |-> FALSE,
                 scorer |-> NewConfidenceScorer(NoWeights, NoWeights, NoWeights),
                 ocr_confidence |-> o, lm_confidence |-> l,
                 dictionary_match |-> d, pattern_validation |-> p,
                 model_switched |-> s, unknown_word_count |-> u,
                 pattern_matched |-> m,
                 result |-> [review_action |-> None]] :
                   o \in ComponentConfidences, l \in MatchScores,
                   d \in MatchScores, p \in PatternScores, s \in BOOLEAN,
                   u \in 0..MaxUnknownWords, m \in BOOLEAN}
    /\ worker = NoWorker

NextScorer == CalculateTrustScore

SpecScorer == InitScorer /\ [][NextScorer]_vars

---------------------------------------------------------------------------
(* MultiTrackOCRPipeline: app/services/k_ocr/__init__.py, on the default   *)
(* configuration                                                           *)

\* field_type of a process_region call: None, the types validate_pattern
\* knows, and another one
FieldTypes == {None, "date", "phone", "amount", "name", "address", "other"}

\* what the post-processor makes of a recognised text: the corrected text
\* and the share of its words found in the dictionaries
PostResults ==
    [text : {"12/05/2024", "9876543210", "$ 40", "Ravi Kumar", "MG Road"},
     dictionary_match_score : MatchScores]

\* PostProcessor.process: an empty text stays empty and has no words
post_process(text, reading) ==
    IF text = "" THEN [text |-> "", dictionary_match_score |-> 0] ELSE reading

\* ConfidenceScorer.validate_pattern, with the regular expressions
\* evaluated on the texts of PostResults and on ""
validate_pattern(text, field_type) ==
    IF field_type = None THEN 700
    ELSE IF field_type = "date"
    THEN (IF text = "12/05/2024" THEN 1000 ELSE 300)
    ELSE IF field_type = "phone"
    THEN (IF text = "9876543210" THEN 1000 ELSE 200)
    ELSE IF field_type = "amount"
    THEN (IF text = "9876543210" THEN 1000
          ELSE IF text = "$ 40" THEN 900 ELSE 400)
    ELSE IF field_type = "name"
    THEN (IF text \in {"", "Ravi Kumar", "MG Road"} THEN 1000 ELSE 500)
    ELSE IF field_type = "address"
    THEN (IF text = "MG Road" THEN 1000 ELSE 500)
    ELSE 700

\* MultiTrackOCRPipeline._initialize_components on _get_default_config
NewPipeline ==
    [multi_track_ocr |-> NewMultiTrackOCR(TRUE, "printed"),
     confidence_scorer |-> NewConfidenceScorer(ScorerWeights, NoWeights,
                                               NoWeights)]

MultiTrackOCRPipeline_process_region_Lm(self, engine, text_type, type_confidence, reading, field_type) ==
    LET ocr_result == process_region(self.multi_track_ocr, engine, text_type,
                                     type_confidence).result
        post_proc_result == post_process(ocr_result.text, reading)
        trust_score_result ==
            ConfidenceScorer_calculate_trust_score(self.confidence_scorer,
                ocr_result.confidence, ocr_result.confidence,
                post_proc_result.dictionary_match_score,
                validate_pattern(post_proc_result.text, field_type),
                ocr_result.switched, 0, TRUE)
    IN  [raised |-> None, ocr_result |-> ocr_result,
         trust_score_result |-> trust_score_result,
         text |-> post_proc_result.text,
         confidence |-> ocr_result.confidence,
         trust_score |-> trust_score_result.trust_score,
         model_used |-> ocr_result.model_used,
         switched |-> ocr_result.switched,
         review_action |-> trust_score_result.review_action,
         needs_review |-> trust_score_result.needs_review,
         pattern_validation |-> validate_pattern(post_proc_result.text,
                                                 field_type)]

\* MultiTrackOCRPipeline.process_region: the result, with the records of
\* the OCR stage and of the scorer it was compiled from
MultiTrackOCRPipeline_process_region(self, engine, text_type, type_confidence, reading, field_type) ==
    LET ocr_result == process_region(self.multi_track_ocr, engine, text_type,
                                     type_confidence).result
        post_proc_result == post_process(ocr_result.text, reading)
        pattern_score == validate_pattern(post_proc_result.text, field_type)
        trust_score_result ==
            ConfidenceScorer_calculate_trust_score(self.confidence_scorer,
                ocr_result.confidence, 0,
                post_proc_result.dictionary_match_score, pattern_score,
                ocr_result.switched, 0, TRUE)
    IN  IF ocr_result.raised # None
        THEN [raised |-> ocr_result.raised]
        ELSE [raised |-> None, ocr_result |-> ocr_result,
              trust_score_result |-> trust_score_result,
              text |-> post_proc_result.text,
              confidence |-> ocr_result.confidence,
              trust_score |-> trust_score_result.trust_score,
              model_used |-> ocr_result.model_used,
              switched |-> ocr_result.switched,
              review_action |-> trust_score_result.review_action,
              needs_review |-> trust_score_result.needs_review,
              pattern_validation |-> pattern_score]

\* the pipeline's process_region call, with the image (what the text
\* classifier, the engine and the post-processor make of it) and the
\* field type drawn in the initial state
PipelineProcessRegion ==
    /\ "pipeline" \in DOMAIN ocr
    /\ ~ocr.called
    /\ ocr' = [ocr EXCEPT
                 !.called = TRUE,
                 !.result = MultiTrackOCRPipeline_process_region(ocr.pipeline,
                                ocr.engine, ocr.text_type, ocr.type_confidence,
                                ocr.reading, ocr.field_type)]
    /\ UNCHANGED <<jobs, regions, audit_logs, audit_seq, lastOp, queue, sess,
                   result_json, audit_jsonl, cls, keval, worker>>

InitPipeline ==
    /\ InitDbFixed
    /\ lastOp = NoOp
    /\ queue = <<>>
    /\ sess = IdleSess
    /\ result_json = <<>>
    /\ audit_jsonl = <<>>
    /\ cls = NoCall
    /\ keval = NoEval
    /\ ocr \in {[called |-> FALSE, pipeline |-> NewPipeline,
                 engine |-> e, text_type |-> t, type_confidence |-> tc,
                 reading |-> p, field_type |-> f,
                 result |-> [raised |-> None]] :
                   e \in [ModelTypes -> EngineOutcomes
                                          \cup {[fails |-> FALSE,
                                                 confidence |-> 1000]}],
                   t \in TextTypes, tc \in {600, 900},
                   p \in PostResults, f \in FieldTypes}
    /\ worker = NoWorker

NextPipeline == PipelineProcessRegion

SpecPipeline == InitPipeline /\ [][NextPipeline]_vars

---------------------------------------------------------------------------
(* Properties                                                              *)

\* the audit_logs row with this id
AuditRow(id) == audit_logs[CHOOSE i \in 1..Len(audit_logs) : audit_logs[i].id = id]

\* the audit_logs rows written for a region
AuditRowsOf(r) == {i \in 1..Len(audit_logs) : audit_logs[i].region_id = r}

\* C1: a review_region request on a region that is already human_verified
\* returns None and leaves the regions and the audit log as they were
C1_ReReviewRejected ==
    [][\A r \in RegionIds :
          (/\ lastOp'.op = "review_region"
           /\ lastOp'.region_id = r
           /\ r \in DOMAIN regions
           /\ regions[r].human_verified)
          => (/\ lastOp'.ret = None
              /\ regions' = regions
              /\ audit_logs' = audit_logs)]_vars

\* a rejected second review of a verified region, its audit entry in the log
C1_Witness ==
    /\ lastOp.op = "review_region"
    /\ lastOp.ret = None
    /\ lastOp.region_id \in DOMAIN regions
    /\ regions[lastOp.region_id].human_verified
    /\ AuditRowsOf(lastOp.region_id) # {}

\* C2: of the review_region requests of two reviewers on one region at most
\* one succeeds, at most one audit entry is written for the region, and the
\* entry's after snapshot is the state that transition left the region in
C2_AtomicReview ==
    /\ \A r \in RegionIds : Cardinality(AuditRowsOf(r)) <= 1
    /\ \A u1 \in UserIds, u2 \in UserIds :
          (/\ u1 # u2
           /\ sess[u1].region_id = sess[u2].region_id
           /\ sess[u1].ret = "AuditLog")
          => sess[u2].ret # "AuditLog"
    /\ \A i \in 1..Len(audit_logs) :
          audit_logs[i].after = Snapshot(regions[audit_logs[i].region_id])

\* C3: once a region (a row of the regions table or a field of result.json)
\* is human_verified, no request changes its normalized_text, trust_score or
\* verified_value
C3_VerifiedFrozen ==
    [][/\ \A r \in DOMAIN regions \cap DOMAIN regions' :
             regions[r].human_verified
             => /\ regions'[r].normalized_text = regions[r].normalized_text
                /\ regions'[r].trust_score = regions[r].trust_score
                /\ regions'[r].verified_value = regions[r].verified_value
       /\ \A i \in DOMAIN result_json \cap DOMAIN result_json' :
             result_json[i].human_verified
             => /\ result_json'[i].normalized_text = result_json[i].normalized_text
                /\ result_json'[i].trust_score = result_json[i].trust_score
                /\ result_json'[i].verified_value = result_json[i].verified_value]_vars

\* C4: every audit entry in the log is still in the log, unchanged, after
\* any request (a review, a job update, a job deletion)
C4_AuditAppendOnly ==
    [][\A i \in 1..Len(audit_logs) :
          \E k \in 1..Len(audit_logs') : audit_logs'[k] = audit_logs[i]]_vars

\* C5: after a successful correct review with a verified_value v the region
\* has normalized_text = v, verified_value = v and trust_score = 1.0, the
\* audit entry's after snapshot is that state, and when v differs from the
\* prior normalized_text the entry has after.trust_score = 1.0 and
\* before.normalized_text # after.normalized_text
C5_CorrectApplied ==
    (/\ lastOp.op = "review_region"
     /\ lastOp.action = "correct"
     /\ Truthy(lastOp.verified_value)
     /\ lastOp.ret = "AuditLog")
    => LET region == regions[lastOp.region_id]
           entry == AuditRow(lastOp.audit_id)
           v == lastOp.verified_value
       IN  /\ region.normalized_text = v
           /\ region.verified_value = v
           /\ region.trust_score = 1000
           /\ entry.after = Snapshot(region)
           /\ entry.before.human_verified = FALSE
           /\ v # entry.before.normalized_text
              => /\ entry.after.trust_score = 1000
                 /\ entry.before.normalized_text # entry.after.normalized_text

\* a correction to a value other than the region's text has been applied
C5_Witness ==
    /\ lastOp.op = "review_region"
    /\ lastOp.action = "correct"
    /\ lastOp.verified_value = "b"
    /\ lastOp.ret = "AuditLog"
    /\ AuditRow(lastOp.audit_id).before.normalized_text = "a"
    /\ AuditRow(lastOp.audit_id).before.trust_score < 1000

\* C6: a correct review without a verified_value (None or "") changes no
\* region and writes no audit entry
C6_CorrectNeedsValue ==
    [][(/\ lastOp'.op = "review_region"
        /\ lastOp'.action = "correct"
        /\ ~Truthy(lastOp'.verified_value))
       => (/\ lastOp'.ret # "AuditLog"
           /\ regions' = regions
           /\ audit_logs' = audit_logs)]_vars

\* the regions a review queue is to show
Eligible ==
    {r \in DOMAIN regions : /\ regions[r].trust_score < TRUST_SCORE_THRESHOLD
                            /\ ~regions[r].human_verified}

\* C7: get_review_queue returns a list holding, before pagination, exactly
\* the regions with trust_score < TRUST_SCORE_THRESHOLD and
\* human_verified = false, and modifies no region
C7_QueueIsProjection ==
    [][lastOp'.op = "get_review_queue"
       => (/\ lastOp'.ret = "list"
           /\ Range(queue') \subseteq Eligible
           /\ Len(queue') = Min(lastOp'.limit,
                                Max(0, Cardinality(Eligible) - lastOp'.skip))
           /\ Cardinality(Range(queue')) = Len(queue')
           /\ regions' = regions)]_vars

\* C8: the regions of the review queue are in ascending order of trust_score
C8_QueueAscending ==
    lastOp.op = "get_review_queue"
    => \A i \in 1..Len(queue), k \in 1..Len(queue) :
          i < k => regions[queue[i]].trust_score <= regions[queue[k]].trust_score

ReviewActions == {"AUTO_ACCEPT", "LIGHT_REVIEW", "FULL_REVIEW", "MANUAL_CORRECTION"}

\* C9: classify returns one of the four review actions for every
\* confidence, domain and flags; with the default thresholds (no domain
\* override, no flag) the action is MANUAL_CORRECTION on [0, 0.70),
\* FULL_REVIEW on [0.70, 0.80), LIGHT_REVIEW on [0.80, 0.90) and
\* AUTO_ACCEPT on [0.90, 1]
C9_FourBands ==
    cls.called =>
       /\ cls.result.review_action \in ReviewActions
       /\ (cls.domain \notin {"medical", "logistics"}
           /\ ~cls.is_anomalous /\ ~cls.is_ood)
          => /\ cls.result.review_action = "MANUAL_CORRECTION"
                <=> (0 <= cls.confidence /\ cls.confidence < 700)
             /\ cls.result.review_action = "FULL_REVIEW"
                <=> (700 <= cls.confidence /\ cls.confidence < 800)
             /\ cls.result.review_action = "LIGHT_REVIEW"
                <=> (800 <= cls.confidence /\ cls.confidence < 900)
             /\ cls.result.review_action = "AUTO_ACCEPT"
                <=> (900 <= cls.confidence /\ cls.confidence <= 1000)

\* a confidence on the boundary of two bands has been classified for an
\* unknown domain
C9_Witness ==
    /\ cls.called
    /\ cls.domain = "retail"
    /\ ~cls.is_anomalous /\ ~cls.is_ood
    /\ cls.confidence = 700
    /\ cls.result.review_action = "FULL_REVIEW"

\* C10: when is_anomalous is true classify returns FULL_REVIEW, priority
\* HIGH, needs_review true and penalties_applied = ['anomaly_detected'],
\* with the confidence left without the OOD penalty, for every confidence,
\* domain and is_ood
C10_AnomalyShortCircuit ==
    (cls.called /\ cls.is_anomalous)
    => /\ cls.result.review_action = "FULL_REVIEW"
       /\ cls.result.priority = "HIGH"
       /\ cls.result.needs_review = TRUE
       /\ cls.result.penalties_applied = <<"anomaly_detected">>
       /\ cls.result.adjusted_confidence = cls.confidence

\* an anomalous and out-of-distribution document of confidence 0.99
C10_Witness ==
    /\ cls.called
    /\ cls.is_anomalous
    /\ cls.is_ood
    /\ cls.confidence = 990
    /\ cls.result.review_action = "FULL_REVIEW"

\* the strictness of a review action
Strictness(review_action) ==
    CASE review_action = "AUTO_ACCEPT" -> 0
      [] review_action = "LIGHT_REVIEW" -> 1
      [] review_action = "FULL_REVIEW" -> 2
      [] review_action = "MANUAL_CORRECTION" -> 3

\* the action classify gives the arguments of the last call in a domain
ActionIn(domain) ==
    classify(DefaultThresholds, DefaultDomainOverrides, cls.confidence, domain,
             cls.is_anomalous, cls.is_ood).review_action

\* C11: when the config file is missing or cannot be loaded the pipeline
\* runs on the default configuration, and score_and_route returns a routing
\* decision, raising nothing, for every triple of component confidences
C11_FallbackRoutes ==
    (keval.scored /\ keval.config_file = None)
    => /\ keval.config = get_default_config
       /\ keval.result.raised = None
       /\ keval.result.review_action \in ReviewActions

\* C12: with the default thresholds and overrides, auto_accept of medical
\* >= of general >= of logistics, and for every confidence and flags the
\* action for medical is at least as strict as for general, which is at
\* least as strict as for logistics
C12_DomainOrdering ==
    /\ get_domain_thresholds(DefaultThresholds, DefaultDomainOverrides,
                             "medical").auto_accept
          >= get_domain_thresholds(DefaultThresholds, DefaultDomainOverrides,
                                   "general").auto_accept
    /\ get_domain_thresholds(DefaultThresholds, DefaultDomainOverrides,
                             "general").auto_accept
          >= get_domain_thresholds(DefaultThresholds, DefaultDomainOverrides,
                                   "logistics").auto_accept
    /\ cls.called
       => /\ cls.result.review_action = ActionIn(cls.domain)
          /\ Strictness(ActionIn("medical")) >= Strictness(ActionIn("general"))
          /\ Strictness(ActionIn("general")) >= Strictness(ActionIn("logistics"))

\* a confidence of 0.90 classified for medical is reviewed lightly, where
\* general accepts it
C12_Witness ==
    /\ cls.called
    /\ cls.domain = "medical"
    /\ cls.confidence = 900
    /\ ~cls.is_anomalous /\ ~cls.is_ood
    /\ cls.result.review_action = "LIGHT_REVIEW"
    /\ ActionIn("general") = "AUTO_ACCEPT"

\* the last score_and_route call was made with these arguments, for
\* domain 'general' and without flags
ScoredWith(ocr_confidence, lingua_confidence, comply_confidence) ==
    /\ keval.scored
    /\ keval.ocr_confidence = ocr_confidence
    /\ keval.lingua_confidence = lingua_confidence
    /\ keval.comply_confidence = comply_confidence
    /\ keval.domain = "general"
    /\ ~keval.is_anomalous /\ ~keval.is_ood

\* C13: Scenario A: score_and_route with ocr = lingua = comply = 0.9 and
\* the weights 0.4/0.35/0.25 at T = 1 for domain 'general' gives variance 0, aggregated confidence
\* exactly 0.9 and the decision AUTO_ACCEPT, priority NONE, needs_review
\* false
C13_ScenarioA ==
    (ScoredWith(900, 900, 900) /\ keval.config_file = "yaml")
    => /\ keval.result.raised = None
       /\ keval.result.temperature_applied = 1000
       /\ keval.result.variance = 0
       /\ keval.result.aggregated_confidence = ToFine(900)
       /\ keval.result.review_action = "AUTO_ACCEPT"
       /\ keval.result.priority = "NONE"
       /\ keval.result.needs_review = FALSE

\* C14: Scenario B: confidences [0.9, 0.5, 0.5] with weights
\* [0.4, 0.35, 0.25] give the weighted mean 0.66, variance 0.0355, standard
\* deviation 0.1885 and aggregate 0.6317, which at T = 1 for 'general' is
\* below full_review (0.70) and routed to MANUAL_CORRECTION, priority
\* CRITICAL, review_percentage 100
C14_ScenarioB ==
    (ScoredWith(900, 500, 500) /\ keval.config_file = "yaml")
    => /\ keval.result.raised = None
       /\ WeightedMean(<<900, 500, 500>>, <<400, 350, 250>>) = 6600
       /\ keval.result.variance = 355
       /\ keval.result.disagreement = 1885
       /\ keval.result.aggregated_confidence = 63170000
       /\ keval.result.temperature_applied = 1000
       /\ ToMilli(keval.result.final_confidence) < DefaultThresholds.full_review
       /\ keval.result.review_action = "MANUAL_CORRECTION"
       /\ keval.result.priority = "CRITICAL"
       /\ keval.result.review_percentage = 100

\* Scenario B has been scored, with the weights read from the config file
C14_Witness ==
    /\ ScoredWith(900, 500, 500)
    /\ keval.config_file = "yaml"
    /\ keval.result.raised = None
    /\ keval.result.aggregated_confidence = 63170000
    /\ keval.result.review_action = "MANUAL_CORRECTION"

\* C15: at T = 1 apply_temperature_scaling returns its argument, the
\* endpoints 0 and 1 included, so that the routing decision is the one of
\* the uncalibrated aggregated confidence
C15_IdentityAtOne ==
    (keval.scored /\ keval.result.raised = None
        /\ keval.result.temperature_applied = 1000)
    => /\ keval.result.final_confidence = keval.result.aggregated_confidence
       /\ keval.result.review_action =
             classify(keval.config.selective_classification.thresholds,
                      keval.config.selective_classification.domain_overrides,
                      ToMilli(keval.result.aggregated_confidence), keval.domain,
                      keval.is_anomalous, keval.is_ood).review_action

\* all the confidences of the samples are the same; so for no sample
Degenerate(samples) ==
    \A i, j \in 1..Len(samples) : samples[i].confidence = samples[j].confidence

\* C19: calibrate on an empty sample list or on samples of all-identical
\* confidences returns the optimal temperature 1.0, the search not run
C19_CalibrationGuard ==
    (keval.calibrations > 0 /\ Degenerate(keval.samples))
    => keval.optimal_temperature = 1000

\* the model process_region ran first, and the other one
PrimaryModel ==
    select_primary_model(ocr.self.text_type_detection_threshold,
                         ocr.self.model_priority, ocr.text_type,
                         ocr.type_confidence)

AlternateModel == IF PrimaryModel = "printed" THEN "handwritten" ELSE "printed"

\* what the engine returns for a model on the image of the last call
Inference(model_type) == run_inference(ocr.engine, model_type)

\* the alternate model was run in the last call
FallbackRan == Len(ocr.runs) = 2

\* C16: process_region runs the primary model exactly once, and the
\* alternate at most once, after it and only if fallback is enabled and
\* the primary confidence is below the switch threshold; when the alternate
\* ran the final confidence is the greater one and the text and model are
\* those of the result with it; switched is true iff the alternate's
\* confidence is strictly higher, and model_used differs from primary_model
\* iff switched
C16_FallbackSelection ==
    (ocr.called /\ ocr.result.raised = None)
    => /\ ocr.runs \in {<<PrimaryModel>>, <<PrimaryModel, AlternateModel>>}
       /\ ocr.result.primary_model = PrimaryModel
       /\ FallbackRan
          => /\ ocr.self.fallback_enabled
             /\ Inference(PrimaryModel).confidence < ocr.self.confidence_threshold
             /\ ocr.result.confidence =
                   Max(Inference(PrimaryModel).confidence,
                       Inference(AlternateModel).confidence)
             /\ ocr.result.switched
                <=> Inference(AlternateModel).confidence
                       > Inference(PrimaryModel).confidence
             /\ ocr.result.text =
                   Inference(IF ocr.result.switched THEN AlternateModel
                             ELSE PrimaryModel).text
       /\ ~FallbackRan
          => /\ ~ocr.result.switched
             /\ ocr.result.confidence = Inference(PrimaryModel).confidence
             /\ ocr.result.text = Inference(PrimaryModel).text
       /\ ocr.result.model_used =
             IF ocr.result.switched THEN AlternateModel ELSE PrimaryModel
       /\ (ocr.result.model_used # ocr.result.primary_model)
          <=> ocr.result.switched

\* the alternate model ran and came out with the confidence of the
\* primary: the primary result is kept
C16_Witness ==
    /\ ocr.called
    /\ FallbackRan
    /\ Inference(PrimaryModel).confidence = 500
    /\ Inference(AlternateModel).confidence = 500
    /\ ~ocr.result.switched
    /\ ocr.result.model_used = PrimaryModel

\* C17: whenever the fallback model was run, the record returned carries
\* both the primary and the fallback confidence, whether the fallback
\* result won or not
C17_BothConfidences ==
    (ocr.called /\ FallbackRan)
    => /\ ocr.result.primary_confidence = Inference(PrimaryModel).confidence
       /\ ocr.result.fallback_confidence = Inference(AlternateModel).confidence

\* C18: a failing model invocation never raises out of process_region: the
\* failed branch counts as text '' with confidence 0.0; if the primary
\* fails and fallback is enabled the alternate is tried and wins iff its
\* confidence is > 0; if both fail the record has empty text, confidence
\* 0.0 and switched false
C18_FailureDegrades ==
    ocr.called
    => /\ ocr.result.raised = None
       /\ ocr.engine[PrimaryModel].fails
          => /\ ocr.result.raw_text = ""
             /\ ocr.result.primary_confidence = 0
             /\ ocr.self.fallback_enabled
                => /\ FallbackRan
                   /\ ocr.result.switched
                      <=> (~ocr.engine[AlternateModel].fails
                             /\ ocr.engine[AlternateModel].confidence > 0)
       /\ (ocr.engine[PrimaryModel].fails /\ ocr.engine[AlternateModel].fails)
          => /\ ocr.result.text = ""
             /\ ocr.result.confidence = 0
             /\ ~ocr.result.switched

\* both models failed on the image, with fallback enabled
C18_Witness ==
    /\ ocr.called
    /\ ocr.self.fallback_enabled
    /\ ocr.engine[PrimaryModel].fails
    /\ ocr.engine[AlternateModel].fails
    /\ FallbackRan
    /\ ocr.result.raised = None
    /\ ocr.result.text = ""

\* process_document_job was entered for the job and found it
Started(j) == worker[j].pc = "finished" /\ worker[j].started

\* C20: every job the worker starts processing eventually has the status
\* DONE or FAILED (or is deleted): a step that raises, or the timeout,
\* makes it FAILED, and no started job stays QUEUED or PROCESSING forever
C20_EventuallyTerminal ==
    \A j \in JobIds :
       Started(j) ~> (j \notin DOMAIN jobs \/ jobs[j].status \in FinalStatus)


\* the action score_and_route gives these component confidences with the
\* configuration, domain and flags of the last call
ActionWith(ocr_confidence, lingua_confidence, comply_confidence, rounding) ==
    score_and_route(keval.config, ocr_confidence, lingua_confidence,
                    comply_confidence, keval.domain, keval.is_anomalous,
                    keval.is_ood, rounding).review_action

\* C21: with the weights 0.40/0.35/0.25, variance_weighted aggregation
\* (penalty 0.15) and T = 1, lowering one component confidence (to 0.0 in
\* particular) with the other two, the domain and the flags fixed never
\* gives a less strict review_action
C21_LoweringIsStricter ==
    (keval.scored /\ keval.config_file = "yaml")
    => /\ keval.result.raised = None
       /\ keval.result.temperature_applied = 1000
       /\ \A lower \in ComponentConfidences, rounding \in Roundings :
             /\ lower < keval.ocr_confidence
                => Strictness(ActionWith(lower, keval.lingua_confidence,
                                         keval.comply_confidence, rounding))
                      >= Strictness(keval.result.review_action)
             /\ lower < keval.lingua_confidence
                => Strictness(ActionWith(keval.ocr_confidence, lower,
                                         keval.comply_confidence, rounding))
                      >= Strictness(keval.result.review_action)
             /\ lower < keval.comply_confidence
                => Strictness(ActionWith(keval.ocr_confidence,
                                         keval.lingua_confidence, lower, rounding))
                      >= Strictness(keval.result.review_action)

\* three confidences of 1.0 are accepted, and with the OCR confidence at
\* 0.0 the same region goes to manual correction
C21_Witness ==
    /\ ScoredWith(1000, 1000, 1000)
    /\ keval.config_file = "yaml"
    /\ keval.result.review_action = "AUTO_ACCEPT"
    /\ ActionWith(0, 1000, 1000, 0) = "MANUAL_CORRECTION"


\* a stored region whose extraction failed: empty text, OCR confidence 0.0
ExtractionFailed(r) ==
    /\ r \in DOMAIN regions
    /\ "raw_text" \in DOMAIN regions[r]
    /\ regions[r].raw_text = ""
    /\ regions[r].ocr_confidence = 0

\* C22: a region of the document worker whose OCR or extraction failed
\* (empty text, ocr_confidence 0.0) has, for every layout confidence, a
\* trust_score below TRUST_SCORE_THRESHOLD and is selected by the review
\* queue
C22_FailedRegionReviewed ==
    \A r \in RegionIds :
       ExtractionFailed(r)
       => /\ regions[r].trust_score < TRUST_SCORE_THRESHOLD
          /\ r \in QueueFilter(regions)


\* the penalties the arguments of the last calculate_trust_score call
\* incur, in millionths
PenaltiesDue ==
    (IF ocr.model_switched THEN 100000 ELSE 0)
    + (IF ocr.unknown_word_count > 0
       THEN Min(50000 * ocr.unknown_word_count, 200000) ELSE 0)
    + (IF ocr.pattern_matched THEN 0 ELSE 100000)

\* the tags of those penalties, in the fixed order
TagsDue ==
    (IF ocr.model_switched THEN <<"model_switch">> ELSE <<>>)
    \o (IF ocr.unknown_word_count > 0
        THEN <<"unknown_words_" \o ToString(ocr.unknown_word_count)>> ELSE <<>>)
    \o (IF ocr.pattern_matched THEN <<>> ELSE <<"pattern_mismatch">>)

\* C23: calculate_trust_score returns the weighted sum of the components
\* less the penalties (0.10 for a model switch, 0.05 per unknown word up to
\* 0.20, 0.10 for a pattern mismatch) clamped to [0, 1]; penalties_applied
\* lists exactly the penalties applied, in the order model-switch,
\* unknown-words, pattern-mismatch; needs_review is true iff review_action
\* is not auto_accept
C23_TrustScoreFormula ==
    ("scorer" \in DOMAIN ocr /\ ocr.called)
    => /\ ocr.result.trust_score
             = Max(0, Min(1000000,
                   500 * ocr.ocr_confidence + 200 * ocr.lm_confidence
                   + 150 * ocr.dictionary_match + 150 * ocr.pattern_validation
                   - PenaltiesDue))
       /\ ocr.result.penalties_applied = TagsDue
       /\ ocr.result.needs_review = (ocr.result.review_action # "auto_accept")

\* a call with a model switch, five unknown words and a pattern mismatch:
\* 0.40 is subtracted, under three tags
C23_Witness ==
    /\ "scorer" \in DOMAIN ocr /\ ocr.called
    /\ ocr.ocr_confidence = 1000 /\ ocr.lm_confidence = 1000
    /\ ocr.dictionary_match = 1000 /\ ocr.pattern_validation = 1000
    /\ ocr.model_switched /\ ocr.unknown_word_count = 5 /\ ~ocr.pattern_matched
    /\ ocr.result.trust_score = 600000
    /\ ocr.result.penalties_applied
          = <<"model_switch", "unknown_words_5", "pattern_mismatch">>
    /\ ocr.result.review_action = "full_review"
    /\ ocr.result.needs_review


\* the pipeline's process_region call has returned
PipelineReturned ==
    /\ "pipeline" \in DOMAIN ocr
    /\ ocr.called
    /\ ocr.result.raised = None

\* the text of the last pipeline call does not match the pattern of its
\* field type
PatternFailed ==
    /\ ocr.field_type \in {"date", "phone", "amount", "name", "address"}
    /\ ocr.result.pattern_validation <= 500

\* C24: in the pipeline's process_region, a failed field-type pattern
\* validation subtracts the pattern-mismatch penalty 0.10 from the trust
\* score and records the tag pattern_mismatch; the model-switch penalty is
\* applied exactly when the OCR stage reported switched
C24_PipelinePenalties ==
    PipelineReturned
    => /\ ("model_switch" \in Range(ocr.result.trust_score_result.penalties_applied))
             = ocr.result.ocr_result.switched
       /\ PatternFailed
          => /\ "pattern_mismatch"
                   \in Range(ocr.result.trust_score_result.penalties_applied)
             /\ ocr.result.trust_score
                   = Max(0, 500 * ocr.result.confidence
                            + 150 * ocr.result.trust_score_result.components.dictionary_match
                            + 150 * ocr.result.pattern_validation
                            - (IF ocr.result.switched THEN 100000 ELSE 0)
                            - 100000)

\* C29: with the default weights and thresholds the pipeline's
\* process_region never returns auto_accept: the language-model confidence
\* is 0.0, the trust score is at most 0.80, and needs_review is true
C29_NeverAutoAccept ==
    PipelineReturned
    => /\ ocr.result.trust_score_result.components.lm_confidence = 0
       /\ ocr.result.trust_score <= 800000
       /\ ocr.result.review_action # "auto_accept"
       /\ ocr.result.needs_review

\* a region read with OCR confidence 1.0, all words in the dictionaries
\* and the pattern matched scores 0.80 and is reviewed lightly
C29_Witness ==
    /\ PipelineReturned
    /\ ocr.result.confidence = 1000
    /\ ocr.result.trust_score_result.components.dictionary_match = 1000
    /\ ocr.result.pattern_validation = 1000
    /\ ~ocr.result.switched
    /\ ocr.result.trust_score = 800000
    /\ ocr.result.review_action = "light_review"
    /\ ocr.result.needs_review


\* C25: once a review action has succeeded on a region, human_verified
\* never goes back to false, and the region is absent from every later
\* get_review_queue, also when a skip left its trust_score below the
\* threshold
C25_VerifiedStaysOut ==
    [][/\ \A r \in RegionIds :
             (r \in DOMAIN regions /\ regions[r].human_verified)
             => /\ r \in DOMAIN regions' => regions'[r].human_verified
                /\ r \notin QueueFilter(regions')
                /\ r \notin Range(queue')
       /\ (lastOp'.op = "review_region" /\ lastOp'.ret = "AuditLog")
          => /\ regions'[lastOp'.region_id].human_verified
             /\ lastOp'.region_id \notin QueueFilter(regions')]_vars

\* r1 was skipped with its trust_score 0.2 unchanged, and a later
\* get_review_queue request returned a list without it
C25_Witness ==
    /\ "r1" \in DOMAIN regions
    /\ regions["r1"].human_verified
    /\ regions["r1"].trust_score = 200
    /\ \E i \in AuditRowsOf("r1") : audit_logs[i].action = "skip"
    /\ lastOp.op = "get_review_queue"
    /\ lastOp.ret = "list"
    /\ "r1" \notin Range(queue)


\* C26: every audit entry has an action among approve, correct and skip:
\* a review_region request with another action string changes no region
\* and writes no audit entry
C26_AuditActions ==
    /\ \A i \in 1..Len(audit_logs) :
          audit_logs[i].action \in {"approve", "correct", "skip"}
    /\ (lastOp.op = "review_region"
        /\ lastOp.action \notin {"approve", "correct", "skip"})
       => lastOp.ret = None


\* C27: under sequential review_region calls a region is human_verified
\* iff exactly one audit entry exists for it; that entry has
\* before.human_verified false, after.human_verified true and after equal
\* to the region's stored fields; in no state is the update visible
\* without its entry or the entry without the update
C27_VerifiedIffOneAudit ==
    \A r \in DOMAIN regions :
       /\ regions[r].human_verified = (Cardinality(AuditRowsOf(r)) = 1)
       /\ ~regions[r].human_verified => AuditRowsOf(r) = {}
       /\ \A i \in AuditRowsOf(r) :
             /\ audit_logs[i].before.human_verified = FALSE
             /\ audit_logs[i].after.human_verified = TRUE
             /\ audit_logs[i].after = Snapshot(regions[r])

\* r1 has been corrected and has its one audit entry, r2 is unreviewed and
\* has none
C27_Witness ==
    /\ {"r1", "r2"} \subseteq DOMAIN regions
    /\ regions["r1"].human_verified
    /\ regions["r1"].verified_value = "b"
    /\ Cardinality(AuditRowsOf("r1")) = 1
    /\ ~regions["r2"].human_verified
    /\ AuditRowsOf("r2") = {}
    /\ lastOp.op = "review_region" /\ lastOp.ret = "AuditLog"


\* the temperature the configuration of the pipeline gives the domain of
\* the last call
ConfigTemperature ==
    LET optimal_temps == keval.config.calibration.optimal_temperatures
    IN  IF keval.domain \in DOMAIN optimal_temps THEN optimal_temps[keval.domain]
        ELSE IF "global" \in DOMAIN optimal_temps THEN optimal_temps.global
        ELSE 1000

\* C28: calibrate leaves the pipeline's configuration as it was loaded,
\* and score_and_route takes its temperature from the configuration only:
\* after any number of calibrate calls temperature_applied and the whole
\* result of score_and_route are those of a pipeline never calibrated
C28_CalibrateFrame ==
    /\ keval.config = load_config(keval.config_file)
    /\ keval.scored
       => /\ \E rounding \in Roundings :
                keval.result
                   = score_and_route(load_config(keval.config_file),
                         keval.ocr_confidence, keval.lingua_confidence,
                         keval.comply_confidence, keval.domain,
                         keval.is_anomalous, keval.is_ood, rounding)
          /\ keval.result.raised = None
             => keval.result.temperature_applied = ConfigTemperature

\* two calibrations on well-calibrated-looking samples have moved the
\* optimal temperature to 0.5, and the score_and_route call after them
\* still applies T = 1
C28_Witness ==
    /\ keval.calibrations = 2
    /\ keval.optimal_temperature = 500
    /\ keval.scored
    /\ keval.result.raised = None
    /\ keval.result.temperature_applied = 1000


\* C30: in the result of score_and_route the priority and the
\* review_percentage are determined by the review_action, for anomalous
\* documents too: AUTO_ACCEPT (NONE, 0), LIGHT_REVIEW (LOW, 10),
\* FULL_REVIEW (HIGH, 100), MANUAL_CORRECTION (CRITICAL, 100); and
\* needs_review is false iff the action is AUTO_ACCEPT
C30_PriorityByAction ==
    (keval.scored /\ keval.result.raised = None)
    => /\ <<keval.result.priority, keval.result.review_percentage>>
             = CASE keval.result.review_action = "AUTO_ACCEPT" -> <<"NONE", 0>>
                 [] keval.result.review_action = "LIGHT_REVIEW" -> <<"LOW", 10>>
                 [] keval.result.review_action = "FULL_REVIEW" -> <<"HIGH", 100>>
                 [] keval.result.review_action = "MANUAL_CORRECTION"
                       -> <<"CRITICAL", 100>>
       /\ (keval.result.needs_review = FALSE)
             = (keval.result.review_action = "AUTO_ACCEPT")

============================================================================
